---------------------------- MODULE Spec2Model ----------------------------
(***************************************************************************)
(* A model of the ClickerEngine managers: CurrencyManager, UpgradeManager, *)
(* ParadigmManager, ProductionManager, AchievementManager and StateManager *)
(* with the in-memory storage adapter, the EventBus, StatisticsManager,    *)
(* UIManager and the ClickerGameEngine that is built over them.            *)
(*                                                                         *)
(* Numbers are JavaScript numbers in the source.  The model keeps them as  *)
(* integers: every input below is an integer, elapsed times are multiples  *)
(* of 1000 ms and scale factors are given in hundredths, so that every     *)
(* product, quotient and ceiling the code computes is an exact integer.    *)
(*                                                                         *)
(* A JavaScript Map iterates in insertion order, and so does the record a  *)
(* manager serialises it to.  A Map is modelled as the sequence of its     *)
(* entries (records with an id field) in insertion order.                  *)
(*                                                                         *)
(* A value of type T | null | undefined is modelled as a sequence of       *)
(* length 0 (null, undefined) or 1.                                        *)
(***************************************************************************)
EXTENDS Integers, Sequences, FiniteSets, TLC

VARIABLES
  currencies,        \* CurrencyManager.currencies: entries [id, amount]
  upgrades,          \* UpgradeManager.upgrades: entries [id, cost, currencyId, level, purchased, scalable, scaleFactor]
  paradigms,         \* ParadigmManager.paradigms: entries [id, active, productionMultiplier]
  currentParadigm,   \* ParadigmManager.currentParadigm: <<>> (null) or <<id>>
  productionRates,   \* ProductionManager.productionRates: entries [id, rate]
  clickMultipliers,  \* ProductionManager.clickMultipliers: entries [id, multiplier]
  achievements,      \* AchievementManager.achievements: entries [id, unlocked, progress, target]
  storage,           \* MemoryStorageAdapter.storage: entries [id (the key), state]
  events,            \* the events the last operation published, in order
  observers,         \* EventBus.observers: entries [id (the event type), set (the observers, in insertion order)]
  delivered,         \* the observers the last emit (or handled manager call) invoked, in order of invocation
  isRunning,         \* ClickerGameEngine.isRunning
  gameLoopHandle,    \* ClickerGameEngine.gameLoopHandle: <<>> (null) or <<handle>>
  scheduled,         \* the handles of the requestAnimationFrame callbacks that are pending
  lastFrameTime,     \* ClickerGameEngine.lastFrameTime
  autoSaveTimers,    \* the number of setInterval timers start has created (none is ever cleared)
  totalClicks,       \* ClickerGameEngine.totalClicks
  stats,             \* StatisticsManager.stats
  clickTimeWindow,   \* StatisticsManager.clickTimeWindow
  clickTimes,        \* history: the clock value of every recordClick call since construction or reset
  sessionStartTime,  \* StatisticsManager.sessionStartTime
  tabs,              \* UIManager.tabs: entries [id, visible, active, order]
  activeTab,         \* UIManager.activeTab: <<>> (null) or <<id>>
  now,               \* the clock (Date.now, performance.now), in ms since construction
  config,            \* ClickerGameEngine.config: [autoSaveInterval] in ms (debug only switches the log)
  op,                \* the last operation called: [name, id, arg] (addParadigm: and the active flag passed)
  result,            \* how it ended: "ok", "true", "false", "null", "state" or "throw"
  pc                 \* position in the scripted scenario (0 outside it)

vars == <<currencies, upgrades, paradigms, currentParadigm, productionRates,
          clickMultipliers, achievements, storage, events, observers, delivered,
          isRunning, gameLoopHandle, scheduled, lastFrameTime, autoSaveTimers,
          totalClicks, stats, clickTimeWindow, clickTimes, sessionStartTime, tabs,
          activeTab, now,
          config, op, result, pc>>

\* The fields of the managers, of the engine, of the statistics and of the UI.
managerVars == <<currencies, upgrades, paradigms, currentParadigm, productionRates,
                 clickMultipliers, achievements, storage>>
loopVars == <<isRunning, gameLoopHandle, scheduled, lastFrameTime, autoSaveTimers>>
statsVars == <<stats, clickTimeWindow, clickTimes, sessionStartTime>>
uiVars == <<tabs, activeTab>>

---------------------------------------------------------------------------
(* Bounds of the model *)

\* Largest absolute currency amount the model follows.
MaxAmount == 150

\* Largest upgrade level a purchase is followed to.
MaxLevel == 2

\* Largest amount clicks and ticks are followed to in SpecProduction.
MaxProduced == 20

\* Largest amount followed in SpecState, where every state is also a saved one.
MaxSaved == 3

\* Largest number of observers subscribed to one event type in SpecBus.
MaxObservers == 4

\* Latest clock value followed, in seconds.
MaxClock == 3

\* Largest number of auto-save timers start is followed to.
MaxTimers == 2

\* Largest number of engine clicks followed.
MaxClicks == 2

\* Largest number of recordClick calls followed in SpecStatistics.
MaxCalls == 4

\* Largest number of pending frame callbacks followed.
MaxPending == 2

---------------------------------------------------------------------------
(* JavaScript helpers *)

Max(a, b) == IF a >= b THEN a ELSE b

\* Math.ceil(n / d) for d > 0.
Ceil(n, d) == -((-n) \div d)

\* Math.pow(b, e) for a natural exponent.
RECURSIVE Pow(_, _)
Pow(b, e) == IF e <= 0 THEN 1 ELSE b * Pow(b, e - 1)

\* An optional string in a condition: null and the empty string are falsy.
Truthy(x) == x # <<>> /\ x[1] # ""

\* Map.has, Map.get, Map.set (of an entry, under its id), Map.delete.
MapKeys(m) == {m[i].id : i \in DOMAIN m}
MapHas(m, id) == id \in MapKeys(m)
MapGet(m, id) == m[CHOOSE i \in DOMAIN m : m[i].id = id]
MapSet(m, e) ==
  IF MapHas(m, e.id)
  THEN [i \in DOMAIN m |-> IF m[i].id = e.id THEN e ELSE m[i]]
  ELSE Append(m, e)
MapDelete(m, id) == SelectSeq(m, LAMBDA e : e.id # id)

Op(name, id, arg) == [name |-> name, id |-> id, arg |-> arg]

\* A call that leaves the engine's own fields, the statistics, the UI and
\* the clock alone.
Apart == UNCHANGED <<loopVars, totalClicks, statsVars, uiVars, now>>

\* A call made on a manager directly: the subscriptions of the event bus stay
\* (the managers publish to a bus nobody has subscribed to).
Direct == UNCHANGED <<observers, delivered>> /\ Apart

\* A call made outside the scripted scenario.
NoScript == UNCHANGED <<pc, config>> /\ Direct

\* Every amount is at most n.
AtMost(cur, n) == \A i \in DOMAIN cur : cur[i].amount <= n

\* Every amount is within the range the model follows.
InRange(cur) == \A i \in DOMAIN cur : -MaxAmount <= cur[i].amount /\ cur[i].amount <= MaxAmount

---------------------------------------------------------------------------
(* State after construction *)

\* The statistics of a new StatisticsManager, and of one that was reset.
NoStatistics ==
  [totalClicks |-> 0, totalGoldEarned |-> 0, totalUpgradesPurchased |-> 0,
   totalTimePlayed |-> 0, highestGold |-> 0, paradigmChanges |-> 0,
   prestigeCount |-> 0, fastestClick |-> 0, longestSession |-> 0]

Constructed(cfg) ==
  /\ config = cfg
  /\ currencies = <<>>
  /\ upgrades = <<>>
  /\ paradigms = <<>>
  /\ currentParadigm = <<>>
  /\ productionRates = <<>>
  /\ clickMultipliers = <<>>
  /\ achievements = <<>>
  /\ storage = <<>>
  /\ events = <<>>
  /\ observers = <<>>
  /\ delivered = <<>>
  /\ isRunning = FALSE
  /\ gameLoopHandle = <<>>
  /\ scheduled = {}
  /\ lastFrameTime = 0
  /\ autoSaveTimers = 0
  /\ totalClicks = 0
  /\ stats = NoStatistics
  /\ clickTimeWindow = <<>>
  /\ clickTimes = <<>>
  /\ sessionStartTime = 0
  /\ tabs = <<>>
  /\ activeTab = <<>>
  /\ now = 0
  /\ op = Op("new", "", 0)
  /\ result = "ok"
  /\ pc = 0

\* The engine constructed without a configuration: the defaults.
DefaultConfig == [autoSaveInterval |-> 30000]

Init == Constructed(DefaultConfig)

---------------------------------------------------------------------------
(* Events *)

\* An event that reports the amount before the call as the amount after it.
CurrencyChanged_Stale(currencyId, oldAmount, newAmount, change) ==
  [type |-> "currency:changed", currencyId |-> currencyId, oldAmount |-> oldAmount,
   newAmount |-> oldAmount, change |-> change]

CurrencyChanged(currencyId, oldAmount, newAmount, change) ==
  [type |-> "currency:changed", currencyId |-> currencyId, oldAmount |-> oldAmount,
   newAmount |-> newAmount, change |-> change]

EventTypes(evs) == {evs[i].type : i \in DOMAIN evs}

---------------------------------------------------------------------------
(* EventBus.  An observer is a function; it is modelled by the record      *)
(* [fn, once]: fn names the function, once tells the wrapper that          *)
(* EventBus.once builds around it from the function itself.                *)

Observer(fn) == [fn |-> fn, once |-> FALSE]
Wrapper(fn) == [fn |-> fn, once |-> TRUE]

\* What the function named fn does when it is called with an event of some
\* type: a call on the bus for that type, and then a return or a throw.
Behaviour(fn) ==
  CASE fn = "fail"   -> [does |-> <<"return">>, throws |-> TRUE]
    [] fn = "evict"  -> [does |-> <<"off", Observer("log")>>, throws |-> FALSE]
    [] fn = "cancel" -> [does |-> <<"unsubscribe", Observer("fail")>>, throws |-> FALSE]
    [] fn = "invite" -> [does |-> <<"on", Observer("late")>>, throws |-> FALSE]
    [] fn = "wipe"   -> [does |-> <<"clear">>, throws |-> FALSE]
    [] OTHER         -> [does |-> <<"return">>, throws |-> FALSE]

\* this.observers.get(eventType), as an array; empty when there is no entry.
ObserversOf(obs, eventType) ==
  IF MapHas(obs, eventType) THEN MapGet(obs, eventType).set ELSE <<>>

InSet(set, observer) == \E i \in DOMAIN set : set[i] = observer

\* Set.add and Set.delete.
SetAdd(set, observer) == IF InSet(set, observer) THEN set ELSE Append(set, observer)
SetDelete(set, observer) == SelectSeq(set, LAMBDA o : o # observer)

Bus_on(obs, eventType, observer) ==
  MapSet(obs, [id |-> eventType, set |-> SetAdd(ObserversOf(obs, eventType), observer)])

Bus_off(obs, eventType, observer) ==
  IF ~MapHas(obs, eventType) THEN obs
  ELSE MapSet(obs, [id |-> eventType, set |-> SetDelete(ObserversOf(obs, eventType), observer)])

\* clear(eventType?): one entry, or every entry when the type is left out
\* (or is the empty string).
Bus_clear(obs, eventType) ==
  IF Truthy(eventType) THEN MapDelete(obs, eventType[1]) ELSE <<>>

\* A call of the function fn with an event of the type: the subscriptions
\* after it, and whether it threw.
call(fn, obs, eventType) ==
  LET b == Behaviour(fn)
      does == b.does
  IN [obs |-> CASE does[1] = "off" -> Bus_off(obs, eventType, does[2])
                [] does[1] = "unsubscribe" -> Bus_off(obs, eventType, does[2])
                [] does[1] = "on" -> Bus_on(obs, eventType, does[2])
                [] does[1] = "clear" -> Bus_clear(obs, <<eventType>>)
                [] OTHER -> obs,
      thrown |-> b.throws]

\* A call of an observer: the function itself, or the wrapper of once, which
\* calls the function and then, unless the function threw, takes itself off.
invoke(observer, obs, eventType) ==
  LET r == call(observer.fn, obs, eventType)
  IN IF observer.once /\ ~r.thrown
     THEN [obs |-> Bus_off(r.obs, eventType, observer), thrown |-> FALSE]
     ELSE r

\* An emit that calls an observer of its array only if it is still subscribed.
delivers_IfStillSubscribed(observer, obs, eventType) ==
  InSet(ObserversOf(obs, eventType), observer)

\* emit calls every observer of the array it made when it started.
delivers(observer, obs, eventType) == TRUE

\* An emit that a throwing observer ends.
resumeAt_End(i, n) == n + 1

\* The observer emit goes on with after observer i of n threw: the throw is
\* caught inside the loop.
resumeAt(i, n) == i + 1

\* emit's forEach from observer i of the array on: the subscriptions after
\* it and the observers called.
RECURSIVE emitLoop(_, _, _, _, _)
emitLoop(array, i, obs, called, eventType) ==
  IF i > Len(array) THEN [obs |-> obs, called |-> called]
  ELSE IF ~delivers(array[i], obs, eventType)
       THEN emitLoop(array, i + 1, obs, called, eventType)
       ELSE LET r == invoke(array[i], obs, eventType)
            IN emitLoop(array,
                        IF r.thrown THEN resumeAt(i, Len(array)) ELSE i + 1,
                        r.obs, Append(called, array[i]), eventType)

\* A call on the bus alone.
BusCall(name, eventType, obs, called) ==
  /\ op' = Op(name, eventType, 0)
  /\ result' = "ok"
  /\ observers' = obs
  /\ delivered' = called
  /\ UNCHANGED <<currencies, upgrades, paradigms, currentParadigm, productionRates,
                 clickMultipliers, achievements, storage>>

on(eventType, observer) ==
  /\ BusCall("on", eventType, Bus_on(observers, eventType, observer), <<>>)
  /\ events' = <<>>

\* once subscribes a new wrapper of the observer.
once(eventType, fn) ==
  /\ BusCall("once", eventType, Bus_on(observers, eventType, Wrapper(fn)), <<>>)
  /\ events' = <<>>

off(eventType, observer) ==
  /\ BusCall("off", eventType, Bus_off(observers, eventType, observer), <<>>)
  /\ events' = <<>>

\* The function that on returned.
unsubscribe(eventType, observer) ==
  /\ BusCall("unsubscribe", eventType, Bus_off(observers, eventType, observer), <<>>)
  /\ events' = <<>>

clearObservers(eventType) ==
  /\ BusCall("clear", IF eventType = <<>> THEN "" ELSE eventType[1],
             Bus_clear(observers, eventType), <<>>)
  /\ events' = <<>>

emit(eventType) ==
  LET r == emitLoop(ObserversOf(observers, eventType), 1, observers, <<>>, eventType)
  IN /\ BusCall("emit", eventType, r.obs, r.called)
     /\ events' = <<[type |-> eventType]>>

---------------------------------------------------------------------------
(* CurrencyManager *)

\* get: the amount, 0 for an unregistered id.
get(cur, currencyId) == IF MapHas(cur, currencyId) THEN MapGet(cur, currencyId).amount ELSE 0

has(cur, currencyId, amount) == get(cur, currencyId) >= amount

\* The effect of a call on the currency map: the map after it, the events it
\* published, and whether it threw.
\* A call on an unregistered id that returns without doing anything.
Thrown_Ignored(cur) == [cur |-> cur, ev |-> <<>>, thrown |-> FALSE]

Thrown(cur) == [cur |-> cur, ev |-> <<>>, thrown |-> TRUE]

Currency_set(cur, currencyId, amount) ==
  IF ~MapHas(cur, currencyId) THEN Thrown(cur)
  ELSE LET currency == MapGet(cur, currencyId)
           oldAmount == currency.amount
           newAmount == Max(0, amount)
       IN [cur |-> MapSet(cur, [currency EXCEPT !.amount = newAmount]),
           ev |-> <<CurrencyChanged(currencyId, oldAmount, newAmount, newAmount - oldAmount)>>,
           thrown |-> FALSE]

Currency_add(cur, currencyId, amount) ==
  IF ~MapHas(cur, currencyId) THEN Thrown(cur)
  ELSE LET currency == MapGet(cur, currencyId)
           oldAmount == currency.amount
           newAmount == oldAmount + amount
       IN [cur |-> MapSet(cur, [currency EXCEPT !.amount = newAmount]),
           ev |-> <<CurrencyChanged(currencyId, oldAmount, newAmount, amount)>>,
           thrown |-> FALSE]

Currency_subtract(cur, currencyId, amount) ==
  IF ~MapHas(cur, currencyId) THEN Thrown(cur)
  ELSE LET currency == MapGet(cur, currencyId)
           oldAmount == currency.amount
           newAmount == Max(0, oldAmount - amount)
       IN [cur |-> MapSet(cur, [currency EXCEPT !.amount = newAmount]),
           ev |-> <<CurrencyChanged(currencyId, oldAmount, newAmount, -amount)>>,
           thrown |-> FALSE]

\* A call that only touches the currency map.
CurrencyCall(name, currencyId, amount, r) ==
  /\ InRange(r.cur)
  /\ op' = Op(name, currencyId, amount)
  /\ currencies' = r.cur
  /\ events' = r.ev
  /\ result' = IF r.thrown THEN "throw" ELSE "ok"
  /\ UNCHANGED <<upgrades, paradigms, currentParadigm, productionRates,
                 clickMultipliers, achievements, storage>>

addCurrency(currencyId, amount) ==
  /\ op' = Op("addCurrency", currencyId, amount)
  /\ IF MapHas(currencies, currencyId)
     THEN /\ result' = "throw"
          /\ events' = <<>>
          /\ UNCHANGED currencies
     ELSE /\ result' = "ok"
          /\ currencies' = MapSet(currencies, [id |-> currencyId, amount |-> amount])
          /\ events' = <<[type |-> "currency:added", currencyId |-> currencyId]>>
  /\ UNCHANGED <<upgrades, paradigms, currentParadigm, productionRates,
                 clickMultipliers, achievements, storage>>

\* removeCurrency: Map.delete, and currency:removed whether or not the id
\* was registered.
removeCurrency(currencyId) ==
  /\ op' = Op("removeCurrency", currencyId, 0)
  /\ result' = "ok"
  /\ currencies' = MapDelete(currencies, currencyId)
  /\ events' = <<[type |-> "currency:removed", currencyId |-> currencyId]>>
  /\ UNCHANGED <<upgrades, paradigms, currentParadigm, productionRates,
                 clickMultipliers, achievements, storage>>

set(currencyId, amount) ==
  CurrencyCall("set", currencyId, amount, Currency_set(currencies, currencyId, amount))

add(currencyId, amount) ==
  CurrencyCall("add", currencyId, amount, Currency_add(currencies, currencyId, amount))

subtract(currencyId, amount) ==
  CurrencyCall("subtract", currencyId, amount, Currency_subtract(currencies, currencyId, amount))

---------------------------------------------------------------------------
(* UpgradeManager *)

\* upgrade.scaleFactor ?? 1.15, in hundredths.
DefaultScaleFactor == 115

\* calculateCost rounding the scaled cost down instead of up.
calculateCost_RoundedDown(upgrade) ==
  IF ~upgrade.scalable THEN upgrade.cost
  ELSE LET scaleFactor == IF upgrade.scaleFactor = <<>> THEN DefaultScaleFactor
                          ELSE upgrade.scaleFactor[1]
       IN (upgrade.cost * Pow(scaleFactor, upgrade.level)) \div Pow(100, upgrade.level)

\* calculateCost: the cost at the upgrade's level.  A scale factor of s
\* hundredths gives Math.ceil(cost * (s / 100) ^ level).
calculateCost(upgrade) ==
  IF ~upgrade.scalable THEN upgrade.cost
  ELSE LET scaleFactor == IF upgrade.scaleFactor = <<>> THEN DefaultScaleFactor
                          ELSE upgrade.scaleFactor[1]
       IN Ceil(upgrade.cost * Pow(scaleFactor, upgrade.level), Pow(100, upgrade.level))

\* A purchase that raises the level and forgets the purchased flag.
leveledUp_FlagForgotten(upgrade) == [upgrade EXCEPT !.level = @ + 1]

\* The upgrade after a purchase went through.
leveledUp(upgrade) == [upgrade EXCEPT !.level = @ + 1, !.purchased = TRUE]

\* A purchase that never checks the balance.
canAfford_Unchecked(cur, upgrade, cost) == TRUE

\* Whether purchase goes on to deduct the cost.
canAfford(cur, upgrade, cost) == has(cur, upgrade.currencyId, cost)

\* The events purchase publishes after the deduction.
purchaseEvents(upgradeId, upgrade, cost) ==
  <<[type |-> "upgrade:purchased", upgradeId |-> upgradeId, level |-> upgrade.level,
     cost |-> cost],
    [type |-> "upgrade:leveled", upgradeId |-> upgradeId, newLevel |-> upgrade.level]>>

addUpgrade(upgrade) ==
  /\ op' = Op("addUpgrade", upgrade.id, upgrade.cost)
  /\ IF MapHas(upgrades, upgrade.id)
     THEN /\ result' = "throw"
          /\ events' = <<>>
          /\ UNCHANGED upgrades
     ELSE /\ result' = "ok"
          /\ upgrades' = MapSet(upgrades, upgrade)
          /\ events' = <<[type |-> "upgrade:available", upgradeId |-> upgrade.id]>>
  /\ UNCHANGED <<currencies, paradigms, currentParadigm, productionRates,
                 clickMultipliers, achievements, storage>>

purchase(upgradeId) ==
  /\ op' = Op("purchase", upgradeId, 0)
  /\ IF ~MapHas(upgrades, upgradeId)
     THEN /\ result' = "throw"
          /\ events' = <<>>
          /\ UNCHANGED <<currencies, upgrades>>
     ELSE LET upgrade == MapGet(upgrades, upgradeId)
              cost == calculateCost(upgrade)
              r == Currency_subtract(currencies, upgrade.currencyId, cost)
              bought == leveledUp(upgrade)
          IN /\ upgrade.level < MaxLevel
             /\ IF ~canAfford(currencies, upgrade, cost)
                THEN /\ result' = "false"
                     /\ events' = <<>>
                     /\ UNCHANGED <<currencies, upgrades>>
                ELSE IF r.thrown
                THEN /\ result' = "throw"
                     /\ events' = <<>>
                     /\ UNCHANGED <<currencies, upgrades>>
                ELSE /\ result' = "true"
                     /\ currencies' = r.cur
                     /\ upgrades' = MapSet(upgrades, bought)
                     /\ events' = r.ev \o purchaseEvents(upgradeId, bought, cost)
  /\ UNCHANGED <<paradigms, currentParadigm, productionRates, clickMultipliers,
                 achievements, storage>>

\* setLevel: the entry it stores (the purchased flag is not touched).
withLevel(upgrade, level) == [upgrade EXCEPT !.level = Max(0, level)]

\* removeUpgrade: Map.delete, no event.
removeUpgrade(upgradeId) ==
  /\ op' = Op("removeUpgrade", upgradeId, 0)
  /\ result' = "ok"
  /\ upgrades' = MapDelete(upgrades, upgradeId)
  /\ events' = <<>>
  /\ UNCHANGED <<currencies, paradigms, currentParadigm, productionRates,
                 clickMultipliers, achievements, storage>>

---------------------------------------------------------------------------
(* ParadigmManager *)

\* getCurrent: the current paradigm, <<>> (undefined) when there is none.
getCurrent(pars, current) ==
  IF ~Truthy(current) THEN <<>>
  ELSE IF MapHas(pars, current[1]) THEN <<MapGet(pars, current[1])>> ELSE <<>>

getCurrentId(current) == current

\* getCurrentMultiplier: current?.productionMultiplier ?? 1.
getCurrentMultiplier(pars, current) ==
  LET cur == getCurrent(pars, current)
  IN IF cur = <<>> THEN 1 ELSE cur[1].productionMultiplier

isAvailable(pars, paradigmId) == MapHas(pars, paradigmId)

\* A registration that stores the active flag as it was passed.
storedActive_AsPassed(active, current) == active

\* The active flag addParadigm stores: kept only when no paradigm is current.
storedActive(active, current) == active /\ current = <<>>

\* The effect of switchTo on a registered id: the map, the current id, the event.
Paradigm_switchTo(pars, current, paradigmId) ==
  LET deactivated ==
        IF Truthy(current) /\ MapHas(pars, current[1])
        THEN MapSet(pars, [MapGet(pars, current[1]) EXCEPT !.active = FALSE])
        ELSE pars
      newParadigm == [MapGet(deactivated, paradigmId) EXCEPT !.active = TRUE]
  IN [pars |-> MapSet(deactivated, newParadigm),
      current |-> <<paradigmId>>,
      ev |-> <<[type |-> "paradigm:changed", paradigmId |-> paradigmId,
                multiplier |-> newParadigm.productionMultiplier]>>]

addParadigm(paradigmId, active, multiplier) ==
  /\ op' = [name |-> "addParadigm", id |-> paradigmId, arg |-> multiplier, active |-> active]
  /\ events' = <<>>
  /\ IF MapHas(paradigms, paradigmId)
     THEN /\ result' = "throw"
          /\ UNCHANGED <<paradigms, currentParadigm>>
     ELSE /\ result' = "ok"
          /\ currentParadigm' = IF active /\ currentParadigm = <<>>
                                THEN <<paradigmId>> ELSE currentParadigm
          /\ paradigms' = MapSet(paradigms,
                                 [id |-> paradigmId,
                                  active |-> storedActive(active, currentParadigm),
                                  productionMultiplier |-> multiplier])
  /\ UNCHANGED <<currencies, upgrades, productionRates, clickMultipliers,
                 achievements, storage>>

switchTo(paradigmId) ==
  /\ op' = Op("switchTo", paradigmId, 0)
  /\ IF ~MapHas(paradigms, paradigmId)
     THEN /\ result' = "throw"
          /\ events' = <<>>
          /\ UNCHANGED <<paradigms, currentParadigm>>
     ELSE LET r == Paradigm_switchTo(paradigms, currentParadigm, paradigmId)
          IN /\ result' = "ok"
             /\ paradigms' = r.pars
             /\ currentParadigm' = r.current
             /\ events' = r.ev
  /\ UNCHANGED <<currencies, upgrades, productionRates, clickMultipliers,
                 achievements, storage>>

removeParadigm(paradigmId) ==
  /\ op' = Op("removeParadigm", paradigmId, 0)
  /\ result' = "ok"
  /\ events' = <<>>
  /\ currentParadigm' = IF currentParadigm = <<paradigmId>> THEN <<>> ELSE currentParadigm
  /\ paradigms' = MapDelete(paradigms, paradigmId)
  /\ UNCHANGED <<currencies, upgrades, productionRates, clickMultipliers,
                 achievements, storage>>

---------------------------------------------------------------------------
(* ProductionManager *)

getProductionRate(rates, currencyId) ==
  IF MapHas(rates, currencyId) THEN MapGet(rates, currencyId).rate ELSE 0

\* A click multiplier that defaults to 0 where none was set.
getClickMultiplier_DefaultZero(mults, currencyId) ==
  IF MapHas(mults, currencyId) THEN MapGet(mults, currencyId).multiplier ELSE 0

getClickMultiplier(mults, currencyId) ==
  IF MapHas(mults, currencyId) THEN MapGet(mults, currencyId).multiplier ELSE 1

\* deltaTimeMs / 1000 (exact: elapsed times are multiples of 1000).
deltaSeconds(deltaTimeMs) == deltaTimeMs \div 1000

\* A production that leaves the paradigm multiplier out.
productionAmount_NoParadigm(rate, deltaTimeMs, paradigmMultiplier) ==
  rate * deltaSeconds(deltaTimeMs)

productionAmount(rate, deltaTimeMs, paradigmMultiplier) ==
  rate * deltaSeconds(deltaTimeMs) * paradigmMultiplier

\* A click that leaves the paradigm multiplier out.
finalAmount_NoParadigm(baseAmount, clickMultiplier, paradigmMultiplier) ==
  baseAmount * clickMultiplier

finalAmount(baseAmount, clickMultiplier, paradigmMultiplier) ==
  baseAmount * clickMultiplier * paradigmMultiplier

\* Whether tick credits an entry of productionRates.
produces(rate) == rate > 0

\* tick's forEach over productionRates from entry i on: each positive rate is
\* added through CurrencyManager.add; a throw ends the loop and the call.
RECURSIVE tickLoop(_, _, _, _, _, _)
tickLoop(rates, i, cur, ev, deltaTimeMs, paradigmMultiplier) ==
  IF i > Len(rates) THEN [cur |-> cur, ev |-> ev, thrown |-> FALSE]
  ELSE IF ~produces(rates[i].rate)
       THEN tickLoop(rates, i + 1, cur, ev, deltaTimeMs, paradigmMultiplier)
       ELSE LET r == Currency_add(cur, rates[i].id,
                                  productionAmount(rates[i].rate, deltaTimeMs, paradigmMultiplier))
            IN IF r.thrown THEN [cur |-> cur, ev |-> ev, thrown |-> TRUE]
               ELSE tickLoop(rates, i + 1, r.cur, ev \o r.ev, deltaTimeMs, paradigmMultiplier)

\* The events of a completed tick: the currency events, then production:tick.
tickEvents(ev, deltaTimeMs) ==
  Append(ev, [type |-> "production:tick", deltaTimeMs |-> deltaTimeMs])

setProductionRate(currencyId, rate) ==
  /\ op' = Op("setProductionRate", currencyId, rate)
  /\ result' = "ok"
  /\ productionRates' = MapSet(productionRates, [id |-> currencyId, rate |-> rate])
  /\ events' = <<[type |-> "production:changed", currencyId |-> currencyId, rate |-> rate]>>
  /\ UNCHANGED <<currencies, upgrades, paradigms, currentParadigm, clickMultipliers,
                 achievements, storage>>

setClickMultiplier(currencyId, multiplier) ==
  /\ op' = Op("setClickMultiplier", currencyId, multiplier)
  /\ result' = "ok"
  /\ clickMultipliers' = MapSet(clickMultipliers, [id |-> currencyId, multiplier |-> multiplier])
  /\ events' = <<[type |-> "game:clickMultiplierChanged", currencyId |-> currencyId,
                  multiplier |-> multiplier]>>
  /\ UNCHANGED <<currencies, upgrades, paradigms, currentParadigm, productionRates,
                 achievements, storage>>

tick(deltaTimeMs) ==
  LET r == tickLoop(productionRates, 1, currencies, <<>>, deltaTimeMs,
                    getCurrentMultiplier(paradigms, currentParadigm))
  IN /\ InRange(r.cur)
     /\ op' = Op("tick", "", deltaTimeMs)
     /\ currencies' = r.cur
     /\ events' = IF r.thrown THEN r.ev ELSE tickEvents(r.ev, deltaTimeMs)
     /\ result' = IF r.thrown THEN "throw" ELSE "ok"
     /\ UNCHANGED <<upgrades, paradigms, currentParadigm, productionRates,
                    clickMultipliers, achievements, storage>>

click(currencyId, baseAmount) ==
  LET clickMultiplier == getClickMultiplier(clickMultipliers, currencyId)
      paradigmMultiplier == getCurrentMultiplier(paradigms, currentParadigm)
      amount == finalAmount(baseAmount, clickMultiplier, paradigmMultiplier)
      r == Currency_add(currencies, currencyId, amount)
  IN /\ InRange(r.cur)
     /\ op' = Op("click", currencyId, baseAmount)
     /\ currencies' = r.cur
     /\ events' = IF r.thrown THEN r.ev
                  ELSE Append(r.ev, [type |-> "game:click", currencyId |-> currencyId,
                                     baseAmount |-> baseAmount,
                                     clickMultiplier |-> clickMultiplier,
                                     paradigmMultiplier |-> paradigmMultiplier,
                                     finalAmount |-> amount])
     /\ result' = IF r.thrown THEN "throw" ELSE "ok"
     /\ UNCHANGED <<upgrades, paradigms, currentParadigm, productionRates,
                    clickMultipliers, achievements, storage>>

---------------------------------------------------------------------------
(* AchievementManager *)

\* An updateProgress that only checks that the achievement is known.
ignoresUpdate_UnknownOnly(achs, achievementId) == ~MapHas(achs, achievementId)

\* updateProgress returns at once for an unknown or an unlocked achievement.
ignoresUpdate(achs, achievementId) ==
  ~MapHas(achs, achievementId) \/ MapGet(achs, achievementId).unlocked

\* The effect of unlockAchievement: the map and the events.
Achievement_unlock(achs, achievementId) ==
  IF ~MapHas(achs, achievementId) \/ MapGet(achs, achievementId).unlocked
  THEN [achs |-> achs, ev |-> <<>>]
  ELSE LET achievement == MapGet(achs, achievementId)
           unlocked == [achievement EXCEPT !.unlocked = TRUE, !.progress = achievement.target]
       IN [achs |-> MapSet(achs, unlocked),
           ev |-> <<[type |-> "achievement:unlocked", achievementId |-> achievementId,
                     progress |-> unlocked.progress]>>]

\* The effect of updateProgress: progress is stored, the achievement is
\* unlocked when the target is met, and achievement:progress is published.
Achievement_updateProgress(achs, achievementId, progress) ==
  IF ignoresUpdate(achs, achievementId) THEN [achs |-> achs, ev |-> <<>>]
  ELSE LET achievement == MapGet(achs, achievementId)
           stored == MapSet(achs, [achievement EXCEPT !.progress = progress])
           r == IF progress >= achievement.target
                THEN Achievement_unlock(stored, achievementId)
                ELSE [achs |-> stored, ev |-> <<>>]
       IN [achs |-> r.achs,
           ev |-> Append(r.ev, [type |-> "achievement:progress",
                                achievementId |-> achievementId,
                                progress |-> progress, target |-> achievement.target])]

\* addAchievement stores the achievement under its id, replacing an entry
\* that is already there.
addAchievement(achievement) ==
  /\ op' = Op("addAchievement", achievement.id, achievement.target)
  /\ result' = "ok"
  /\ events' = <<>>
  /\ achievements' = MapSet(achievements, achievement)
  /\ UNCHANGED <<currencies, upgrades, paradigms, currentParadigm, productionRates,
                 clickMultipliers, storage>>

updateProgress(achievementId, progress) ==
  LET r == Achievement_updateProgress(achievements, achievementId, progress)
  IN /\ op' = Op("updateProgress", achievementId, progress)
     /\ result' = "ok"
     /\ achievements' = r.achs
     /\ events' = r.ev
     /\ UNCHANGED <<currencies, upgrades, paradigms, currentParadigm, productionRates,
                    clickMultipliers, storage>>

unlockAchievement(achievementId) ==
  LET r == Achievement_unlock(achievements, achievementId)
  IN /\ op' = Op("unlockAchievement", achievementId, 0)
     /\ result' = "ok"
     /\ achievements' = r.achs
     /\ events' = r.ev
     /\ UNCHANGED <<currencies, upgrades, paradigms, currentParadigm, productionRates,
                    clickMultipliers, storage>>

---------------------------------------------------------------------------
(* StateManager, constructed over the currency, upgrade, paradigm and      *)
(* achievement managers (no statistics manager), with MemoryStorageAdapter *)

\* getAllAsRecord, getAsRecord, serialize: the record of each map, in the
\* order of the map.
getAllAsRecord(cur) == [i \in DOMAIN cur |-> [id |-> cur[i].id, amount |-> cur[i].amount]]
getAsRecord(upg) == [i \in DOMAIN upg |-> [id |-> upg[i].id, level |-> upg[i].level]]
Achievement_serialize(achs) ==
  [i \in DOMAIN achs |-> [id |-> achs[i].id, unlocked |-> achs[i].unlocked,
                          progress |-> achs[i].progress]]

\* current?.id ?? 'default'
snapshotParadigm(pars, current) ==
  LET cur == getCurrent(pars, current)
  IN IF cur = <<>> THEN "default" ELSE cur[1].id

\* snapshot: the GameState (the timestamp and the constant totalClicks: 0
\* play no part in the restore and are left out).
snapshot(cur, upg, pars, current, achs) ==
  [currencies |-> getAllAsRecord(cur),
   upgrades |-> getAsRecord(upg),
   currentParadigm |-> snapshotParadigm(pars, current),
   achievements |-> Achievement_serialize(achs)]

\* load's first forEach: CurrencyManager.set of every saved amount, from
\* entry i on; set throws for an id that is not registered.
RECURSIVE restoreCurrencies(_, _, _, _)
restoreCurrencies(saved, i, cur, ev) ==
  IF i > Len(saved) THEN [cur |-> cur, ev |-> ev, thrown |-> FALSE]
  ELSE LET r == Currency_set(cur, saved[i].id, saved[i].amount)
       IN IF r.thrown THEN [cur |-> cur, ev |-> ev, thrown |-> TRUE]
          ELSE restoreCurrencies(saved, i + 1, r.cur, ev \o r.ev)

\* load's second forEach: UpgradeManager.setLevel of every saved level;
\* setLevel throws for an id that is not registered.
RECURSIVE restoreUpgrades(_, _, _)
restoreUpgrades(saved, i, upg) ==
  IF i > Len(saved) THEN [upg |-> upg, thrown |-> FALSE]
  ELSE IF ~MapHas(upg, saved[i].id) THEN [upg |-> upg, thrown |-> TRUE]
       ELSE restoreUpgrades(saved, i + 1,
                            MapSet(upg, withLevel(MapGet(upg, saved[i].id), saved[i].level)))

\* A load that never switches the paradigm.
restoresParadigm_Never(pars, savedId) == FALSE

\* Whether load switches to the saved paradigm id.
restoresParadigm(pars, savedId) == savedId # "" /\ isAvailable(pars, savedId)

\* AchievementManager.deserialize: every saved entry that is registered
\* gets its unlocked flag and its progress back.
RECURSIVE Achievement_deserialize(_, _, _)
Achievement_deserialize(saved, i, achs) ==
  IF i > Len(saved) THEN achs
  ELSE Achievement_deserialize(saved, i + 1,
         IF MapHas(achs, saved[i].id)
         THEN MapSet(achs, [MapGet(achs, saved[i].id) EXCEPT
                              !.unlocked = saved[i].unlocked,
                              !.progress = saved[i].progress])
         ELSE achs)

save(key) ==
  /\ op' = Op("save", key, 0)
  /\ result' = "ok"
  /\ storage' = MapSet(storage,
                       [id |-> key,
                        state |-> snapshot(currencies, upgrades, paradigms,
                                           currentParadigm, achievements)])
  /\ events' = <<[type |-> "state:saved", key |-> key]>>
  /\ UNCHANGED <<currencies, upgrades, paradigms, currentParadigm, productionRates,
                 clickMultipliers, achievements>>

\* load: the restore stops at the first throw, which load catches; what was
\* restored before it stays restored.
load(key) ==
  /\ op' = Op("load", key, 0)
  /\ UNCHANGED <<productionRates, clickMultipliers, storage>>
  /\ IF ~MapHas(storage, key)
     THEN /\ result' = "null"
          /\ events' = <<>>
          /\ UNCHANGED <<currencies, upgrades, paradigms, currentParadigm, achievements>>
     ELSE LET state == MapGet(storage, key).state
              c == restoreCurrencies(state.currencies, 1, currencies, <<>>)
              u == restoreUpgrades(state.upgrades, 1, upgrades)
              p == IF restoresParadigm(paradigms, state.currentParadigm)
                   THEN Paradigm_switchTo(paradigms, currentParadigm, state.currentParadigm)
                   ELSE [pars |-> paradigms, current |-> currentParadigm, ev |-> <<>>]
          IN IF c.thrown
             THEN /\ result' = "null"
                  /\ currencies' = c.cur
                  /\ events' = c.ev
                  /\ UNCHANGED <<upgrades, paradigms, currentParadigm, achievements>>
             ELSE IF u.thrown
             THEN /\ result' = "null"
                  /\ currencies' = c.cur
                  /\ upgrades' = u.upg
                  /\ events' = c.ev
                  /\ UNCHANGED <<paradigms, currentParadigm, achievements>>
             ELSE /\ result' = "state"
                  /\ currencies' = c.cur
                  /\ upgrades' = u.upg
                  /\ paradigms' = p.pars
                  /\ currentParadigm' = p.current
                  /\ achievements' = Achievement_deserialize(state.achievements, 1, achievements)
                  /\ events' = c.ev \o p.ev \o <<[type |-> "state:loaded", key |-> key]>>

\* A call on the StateManager that leaves every manager alone.  The argument
\* recorded with the call is 1 when the storage adapter throws during it.
AdapterCall(name, key, thrown) ==
  /\ op' = Op(name, key, IF thrown THEN 1 ELSE 0)
  /\ UNCHANGED <<currencies, upgrades, paradigms, currentParadigm, productionRates,
                 clickMultipliers, achievements>>

\* save with a storage adapter whose save throws: the throw is caught, the
\* emit after adapter.save is not reached.
saveThrowing(key) ==
  /\ AdapterCall("save", key, TRUE)
  /\ result' = "ok"
  /\ events' = <<>>
  /\ UNCHANGED storage

\* load with a storage adapter whose load throws: the throw is caught.
loadThrowing(key) ==
  /\ AdapterCall("load", key, TRUE)
  /\ result' = "null"
  /\ events' = <<>>
  /\ UNCHANGED storage

\* delete: the adapter's delete inside try/catch; no event either way.
delete(key, thrown) ==
  /\ AdapterCall("delete", key, thrown)
  /\ result' = "ok"
  /\ events' = <<>>
  /\ storage' = IF thrown THEN storage ELSE MapDelete(storage, key)

\* exists: return this.storageAdapter.exists(key), with nothing around it.
exists(key, thrown) ==
  /\ AdapterCall("exists", key, thrown)
  /\ result' = IF thrown THEN "throw"
               ELSE IF MapHas(storage, key) THEN "true" ELSE "false"
  /\ events' = <<>>
  /\ UNCHANGED storage

---------------------------------------------------------------------------
(* StatisticsManager *)

\* A recordClick that keeps the clicks that are exactly one second old.
Statistics_recordClick_Inclusive(st, window, t) ==
  LET pushed == Append(window, t)
      kept == SelectSeq(pushed, LAMBDA c : t - c <= 1000)
  IN [stats |-> [st EXCEPT !.totalClicks = @ + 1,
                           !.fastestClick = Max(@, Len(kept))],
      window |-> kept]

\* recordClick at clock value t: the statistics and the click window after it.
Statistics_recordClick(st, window, t) ==
  LET pushed == Append(window, t)
      kept == SelectSeq(pushed, LAMBDA c : t - c < 1000)
  IN [stats |-> [st EXCEPT !.totalClicks = @ + 1,
                           !.fastestClick = Max(@, Len(kept))],
      window |-> kept]

\* A call of recordClick on the statistics manager itself.
recordClick ==
  LET s == Statistics_recordClick(stats, clickTimeWindow, now)
  IN /\ op' = Op("recordClick", "", 0)
     /\ result' = "ok"
     /\ events' = <<>>
     /\ stats' = s.stats
     /\ clickTimeWindow' = s.window
     /\ clickTimes' = Append(clickTimes, now)
     /\ UNCHANGED <<managerVars, observers, delivered, loopVars, totalClicks,
                    sessionStartTime, uiVars, now>>

\* getCurrentSessionTime: Math.floor((Date.now() - sessionStartTime) / 1000).
getCurrentSessionTime(start, t) == (t - start) \div 1000

\* updateTimePlayed: the statistics after it (the session timer restarts).
Statistics_updateTimePlayed(st, start, t) ==
  LET sessionTime == getCurrentSessionTime(start, t)
  IN [st EXCEPT !.totalTimePlayed = @ + sessionTime,
                !.longestSession = Max(@, sessionTime)]

---------------------------------------------------------------------------
(* UIManager *)

Tab(id, visible, active, order) ==
  [id |-> id, visible |-> visible, active |-> active, order |-> order]

addTab(tab) ==
  /\ op' = Op("addTab", tab.id, tab.order)
  /\ events' = <<>>
  /\ IF MapHas(tabs, tab.id)
     THEN /\ result' = "throw"
          /\ UNCHANGED uiVars
     ELSE /\ result' = "ok"
          /\ activeTab' = IF activeTab = <<>> /\ tab.active THEN <<tab.id>> ELSE activeTab
          /\ tabs' = MapSet(tabs, [tab EXCEPT !.active = activeTab = <<>> /\ tab.active])
  /\ UNCHANGED <<managerVars, observers, delivered, loopVars, totalClicks, statsVars, now>>

switchTab(tabId) ==
  /\ op' = Op("switchTab", tabId, 0)
  /\ IF ~MapHas(tabs, tabId) \/ ~MapGet(tabs, tabId).visible
     THEN /\ result' = "throw"
          /\ events' = <<>>
          /\ UNCHANGED uiVars
     ELSE LET deactivated ==
                IF Truthy(activeTab) /\ MapHas(tabs, activeTab[1])
                THEN MapSet(tabs, [MapGet(tabs, activeTab[1]) EXCEPT !.active = FALSE])
                ELSE tabs
          IN /\ result' = "ok"
             /\ tabs' = MapSet(deactivated, [MapGet(deactivated, tabId) EXCEPT !.active = TRUE])
             /\ activeTab' = <<tabId>>
             /\ events' = <<[type |-> "ui:tabSwitched", tabId |-> tabId]>>
  /\ UNCHANGED <<managerVars, observers, delivered, loopVars, totalClicks, statsVars, now>>

---------------------------------------------------------------------------
(* ClickerGameEngine: the game loop.  The engine is constructed with the   *)
(* default configuration (autoSaveInterval 30000).                         *)

\* requestAnimationFrame returns a handle that no pending callback has and
\* that differs from the one the engine holds.
newHandle(pending, handle) ==
  CHOOSE h \in 1..(Cardinality(pending) + 2) :
    /\ h \notin pending /\ <<h>> # handle
    /\ \A g \in 1..(h - 1) : g \in pending \/ <<g>> = handle

\* A cancelAnimationFrame that leaves the callback pending.
cancelAnimationFrame_Late(pending, handle) == pending

\* cancelAnimationFrame: the callback of the handle is no longer pending.
cancelAnimationFrame(pending, handle) == pending \ {handle}

\* Time passes between two calls.
passTime ==
  /\ now < MaxClock * 1000
  /\ now' = now + 1000
  /\ op' = Op("passTime", "", 1000)
  /\ result' = "ok"
  /\ events' = <<>>
  /\ UNCHANGED <<managerVars, observers, delivered, loopVars, totalClicks, statsVars,
                 uiVars, pc, config>>

\* Time passes between two calls, by any number of milliseconds.
elapse(ms) ==
  /\ now + ms <= MaxClock * 1000
  /\ now' = now + ms
  /\ op' = Op("passTime", "", ms)
  /\ result' = "ok"
  /\ events' = <<>>
  /\ UNCHANGED <<managerVars, observers, delivered, loopVars, totalClicks, statsVars,
                 uiVars, pc, config>>

\* A lifecycle call: it touches the loop fields only.
LoopCall(name) ==
  /\ op' = Op(name, "", 0)
  /\ result' = "ok"
  /\ UNCHANGED <<managerVars, observers, delivered, totalClicks, statsVars, uiVars, now>>

\* isRunning = true; lastFrameTime = performance.now(); requestAnimationFrame.
startLoop ==
  LET h == newHandle(scheduled, gameLoopHandle)
  IN /\ isRunning' = TRUE
     /\ lastFrameTime' = now
     /\ gameLoopHandle' = <<h>>
     /\ scheduled' = scheduled \cup {h}

start ==
  /\ LoopCall("start")
  /\ IF isRunning
     THEN /\ events' = <<>>
          /\ UNCHANGED loopVars
     ELSE /\ autoSaveTimers < MaxTimers
          /\ startLoop
          /\ autoSaveTimers' = IF config.autoSaveInterval > 0
                               THEN autoSaveTimers + 1 ELSE autoSaveTimers
          /\ events' = <<[type |-> "game:started"]>>

\* pause, as a call of its own and as the first statement of reset.
Engine_pause ==
  IF ~isRunning
  THEN UNCHANGED loopVars
  ELSE /\ isRunning' = FALSE
       /\ IF gameLoopHandle # <<>>
          THEN /\ scheduled' = cancelAnimationFrame(scheduled, gameLoopHandle[1])
               /\ gameLoopHandle' = <<>>
          ELSE UNCHANGED <<scheduled, gameLoopHandle>>
       /\ UNCHANGED <<lastFrameTime, autoSaveTimers>>

pause ==
  /\ LoopCall("pause")
  /\ Engine_pause
  /\ events' = IF isRunning THEN <<[type |-> "game:paused"]>> ELSE <<>>

resume ==
  /\ LoopCall("resume")
  /\ IF isRunning
     THEN /\ events' = <<>>
          /\ UNCHANGED loopVars
     ELSE /\ startLoop
          /\ UNCHANGED autoSaveTimers
          /\ events' = <<[type |-> "game:resumed"]>>

\* A frame callback that goes on to tick whether the engine runs or not.
returnsAtOnce_Never(running) == FALSE

\* Whether gameLoop returns in its first statement.
returnsAtOnce(running) == ~running

\* The browser runs the pending callback of handle h: gameLoop(timestamp),
\* with the clock value as the timestamp.  A tick that throws ends the
\* callback before it requests the next frame.
gameLoop(h) ==
  /\ h \in scheduled
  /\ op' = Op("gameLoop", "", now - lastFrameTime)
  /\ UNCHANGED <<upgrades, paradigms, currentParadigm, productionRates, clickMultipliers,
                 achievements, storage, observers, delivered, totalClicks, statsVars,
                 uiVars, now, isRunning, autoSaveTimers>>
  /\ IF returnsAtOnce(isRunning)
     THEN /\ result' = "ok"
          /\ events' = <<>>
          /\ scheduled' = scheduled \ {h}
          /\ UNCHANGED <<currencies, gameLoopHandle, lastFrameTime>>
     ELSE LET deltaTime == now - lastFrameTime
              r == tickLoop(productionRates, 1, currencies, <<>>, deltaTime,
                            getCurrentMultiplier(paradigms, currentParadigm))
              next == newHandle(scheduled \ {h}, gameLoopHandle)
          IN /\ InRange(r.cur)
             /\ lastFrameTime' = now
             /\ currencies' = r.cur
             /\ IF r.thrown
                THEN /\ result' = "throw"
                     /\ events' = r.ev
                     /\ scheduled' = scheduled \ {h}
                     /\ UNCHANGED gameLoopHandle
                ELSE /\ result' = "ok"
                     /\ events' = tickEvents(r.ev, deltaTime)
                     /\ scheduled' = (scheduled \ {h}) \cup {next}
                     /\ gameLoopHandle' = <<next>>

\* The loop fields while a call is under way.
LoopFields == [isRunning |-> isRunning, gameLoopHandle |-> gameLoopHandle,
               scheduled |-> scheduled, lastFrameTime |-> lastFrameTime]

\* pause and resume called by a handler while gameLoop is inside tick: the
\* loop fields after the call and the event it published.
Handler_pause(l) ==
  IF ~l.isRunning THEN [loop |-> l, ev |-> <<>>]
  ELSE [loop |-> [l EXCEPT !.isRunning = FALSE,
                           !.scheduled = IF l.gameLoopHandle # <<>>
                                         THEN cancelAnimationFrame(@, l.gameLoopHandle[1])
                                         ELSE @,
                           !.gameLoopHandle = <<>>],
        ev |-> <<[type |-> "game:paused"]>>]

Handler_resume(l) ==
  IF l.isRunning THEN [loop |-> l, ev |-> <<>>]
  ELSE LET h == newHandle(l.scheduled, l.gameLoopHandle)
       IN [loop |-> [l EXCEPT !.isRunning = TRUE,
                              !.lastFrameTime = now,
                              !.gameLoopHandle = <<h>>,
                              !.scheduled = @ \cup {h}],
           ev |-> <<[type |-> "game:resumed"]>>]

\* The engine calls a handler of production:tick makes, from call i on.
RECURSIVE handlerCalls(_, _, _, _)
handlerCalls(calls, i, l, ev) ==
  IF i > Len(calls) THEN [loop |-> l, ev |-> ev]
  ELSE LET r == IF calls[i] = "pause" THEN Handler_pause(l) ELSE Handler_resume(l)
       IN handlerCalls(calls, i + 1, r.loop, ev \o r.ev)

\* gameLoop with a handler of production:tick that calls pause and resume
\* on the engine.  The handler runs inside tick, when the callback of handle
\* h is no longer pending and before gameLoop requests the next frame,
\* which it does whatever the handler did.
gameLoopHandled(h, calls) ==
  /\ h \in scheduled
  /\ isRunning
  /\ op' = Op("gameLoop", "", now - lastFrameTime)
  /\ UNCHANGED <<upgrades, paradigms, currentParadigm, productionRates, clickMultipliers,
                 achievements, storage, observers, delivered, totalClicks, statsVars,
                 uiVars, now, autoSaveTimers>>
  /\ LET deltaTime == now - lastFrameTime
         r == tickLoop(productionRates, 1, currencies, <<>>, deltaTime,
                       getCurrentMultiplier(paradigms, currentParadigm))
         fired == [LoopFields EXCEPT !.scheduled = @ \ {h}, !.lastFrameTime = now]
         c == handlerCalls(calls, 1, fired, <<>>)
         next == newHandle(c.loop.scheduled, c.loop.gameLoopHandle)
     IN /\ InRange(r.cur)
        /\ ~r.thrown
        /\ result' = "ok"
        /\ currencies' = r.cur
        /\ events' = tickEvents(r.ev, deltaTime) \o c.ev
        /\ isRunning' = c.loop.isRunning
        /\ lastFrameTime' = c.loop.lastFrameTime
        /\ scheduled' = c.loop.scheduled \cup {next}
        /\ gameLoopHandle' = <<next>>

\* gameLoop with a handler of currency:changed that calls pause and resume
\* on the engine when it is called first: inside the first add of the tick,
\* before the other currencies are credited and production:tick is
\* published.
gameLoopChanged(h, calls) ==
  /\ h \in scheduled
  /\ isRunning
  /\ op' = Op("gameLoop", "", now - lastFrameTime)
  /\ UNCHANGED <<upgrades, paradigms, currentParadigm, productionRates, clickMultipliers,
                 achievements, storage, observers, delivered, totalClicks, statsVars,
                 uiVars, now, autoSaveTimers>>
  /\ LET deltaTime == now - lastFrameTime
         r == tickLoop(productionRates, 1, currencies, <<>>, deltaTime,
                       getCurrentMultiplier(paradigms, currentParadigm))
         fired == [LoopFields EXCEPT !.scheduled = @ \ {h}, !.lastFrameTime = now]
         c == handlerCalls(calls, 1, fired, <<>>)
         next == newHandle(c.loop.scheduled, c.loop.gameLoopHandle)
     IN /\ InRange(r.cur)
        /\ ~r.thrown
        /\ r.ev # <<>>
        /\ result' = "ok"
        /\ currencies' = r.cur
        /\ events' = <<r.ev[1]>> \o c.ev \o Tail(tickEvents(r.ev, deltaTime))
        /\ isRunning' = c.loop.isRunning
        /\ lastFrameTime' = c.loop.lastFrameTime
        /\ scheduled' = c.loop.scheduled \cup {next}
        /\ gameLoopHandle' = <<next>>

---------------------------------------------------------------------------
(* ClickerGameEngine: click and reset *)

\* ClickerGameEngine.click: ProductionManager.click and, unless it threw,
\* totalClicks++ and StatisticsManager.recordClick.
Engine_click(currencyId, baseAmount) ==
  LET s == Statistics_recordClick(stats, clickTimeWindow, now)
  IN /\ click(currencyId, baseAmount)
     /\ IF result' = "throw"
        THEN UNCHANGED <<totalClicks, stats, clickTimeWindow, clickTimes>>
        ELSE /\ totalClicks' = totalClicks + 1
             /\ stats' = s.stats
             /\ clickTimeWindow' = s.window
             /\ clickTimes' = Append(clickTimes, now)
     /\ UNCHANGED <<observers, delivered, loopVars, sessionStartTime, uiVars, now>>

\* An upgrade reset that keeps the purchased flag.
Upgrade_reset_LevelOnly(upgrade) == [upgrade EXCEPT !.level = 0]

\* UpgradeManager.reset, for one upgrade.
Upgrade_reset(upgrade) == [upgrade EXCEPT !.level = 0, !.purchased = FALSE]

\* AchievementManager.clear, for one achievement.
Achievement_clear(achievement) == [achievement EXCEPT !.unlocked = FALSE, !.progress = 0]

\* ClickerGameEngine.reset: pause, CurrencyManager.clear, UpgradeManager.reset,
\* ProductionManager.clear, AchievementManager.clear, StatisticsManager.reset,
\* totalClicks = 0.
reset ==
  /\ op' = Op("reset", "", 0)
  /\ result' = "ok"
  /\ Engine_pause
  /\ currencies' = <<>>
  /\ upgrades' = [i \in DOMAIN upgrades |-> Upgrade_reset(upgrades[i])]
  /\ productionRates' = <<>>
  /\ clickMultipliers' = <<>>
  /\ achievements' = [i \in DOMAIN achievements |-> Achievement_clear(achievements[i])]
  /\ stats' = NoStatistics
  /\ sessionStartTime' = now
  /\ clickTimeWindow' = <<>>
  /\ clickTimes' = <<>>
  /\ totalClicks' = 0
  /\ events' = (IF isRunning THEN <<[type |-> "game:paused"]>> ELSE <<>>)
                 \o <<[type |-> "game:reset"]>>
  /\ UNCHANGED <<paradigms, currentParadigm, storage, observers, delivered, uiVars, now>>

---------------------------------------------------------------------------
(* The managers over a bus with subscribers.  emit is a synchronous call:  *)
(* the observers of an event run inside the manager call that publishes    *)
(* it, at the point of the call where the emit stands.  A moment is an     *)
(* event together with what a handler reads from the managers when it is   *)
(* called with it.                                                         *)

View(cur, upg, current) == [currencies |-> cur, upgrades |-> upg, currentParadigm |-> current]

Moment(event, saw) == [event |-> event, saw |-> saw]

\* An emit that stands before the assignment it reports.
atEmit_BeforeAssignment(before, after) == before

\* The fields at an emit: the managers emit after they have assigned.
atEmit(before, after) == after

\* set, add, subtract: the one emit is the last statement.
currencyMoments(r) ==
  [i \in DOMAIN r.ev |->
     Moment(r.ev[i], View(atEmit(currencies, r.cur), upgrades, currentParadigm))]

\* purchase: subtract emits currency:changed before the level is raised;
\* upgrade:purchased and upgrade:leveled are emitted after it.
purchaseMoments(upgradeId) ==
  IF ~MapHas(upgrades, upgradeId) THEN <<>>
  ELSE LET upgrade == MapGet(upgrades, upgradeId)
           cost == calculateCost(upgrade)
           r == Currency_subtract(currencies, upgrade.currencyId, cost)
           bought == leveledUp(upgrade)
           ev == purchaseEvents(upgradeId, bought, cost)
       IN IF ~canAfford(currencies, upgrade, cost) \/ r.thrown THEN <<>>
          ELSE currencyMoments(r)
               \o [i \in DOMAIN ev |->
                     Moment(ev[i], View(r.cur, atEmit(upgrades, MapSet(upgrades, bought)),
                                        currentParadigm))]

\* switchTo: paradigm:changed is emitted after currentParadigm is assigned.
switchToMoments(paradigmId) ==
  IF ~MapHas(paradigms, paradigmId) THEN <<>>
  ELSE LET r == Paradigm_switchTo(paradigms, currentParadigm, paradigmId)
       IN [i \in DOMAIN r.ev |->
             Moment(r.ev[i], View(currencies, upgrades, atEmit(currentParadigm, r.current)))]

\* click: add emits currency:changed, then click emits game:click.
clickMoments(currencyId, baseAmount, ev) ==
  LET r == Currency_add(currencies, currencyId,
                        finalAmount(baseAmount, getClickMultiplier(clickMultipliers, currencyId),
                                    getCurrentMultiplier(paradigms, currentParadigm)))
  IN [i \in DOMAIN ev |-> Moment(ev[i], View(atEmit(currencies, r.cur), upgrades, currentParadigm))]

\* tick: every add emits currency:changed when it has credited its currency
\* and before the next one is credited; production:tick is emitted last.
RECURSIVE tickMoments(_, _, _, _, _, _)
tickMoments(rates, i, cur, moments, deltaTimeMs, paradigmMultiplier) ==
  IF i > Len(rates)
  THEN Append(moments, Moment([type |-> "production:tick", deltaTimeMs |-> deltaTimeMs],
                              View(cur, upgrades, currentParadigm)))
  ELSE IF ~produces(rates[i].rate)
       THEN tickMoments(rates, i + 1, cur, moments, deltaTimeMs, paradigmMultiplier)
       ELSE LET r == Currency_add(cur, rates[i].id,
                                  productionAmount(rates[i].rate, deltaTimeMs, paradigmMultiplier))
            IN IF r.thrown THEN moments
               ELSE tickMoments(rates, i + 1, r.cur,
                                moments \o [j \in DOMAIN r.ev |->
                                              Moment(r.ev[j], View(atEmit(cur, r.cur), upgrades,
                                                                   currentParadigm))],
                                deltaTimeMs, paradigmMultiplier)

\* The emits of one manager call, from moment i on: the subscriptions after
\* them and, for every observer called, the event it got and what it saw.
RECURSIVE publish(_, _, _, _)
publish(moments, i, obs, called) ==
  IF i > Len(moments) THEN [obs |-> obs, called |-> called]
  ELSE LET type == moments[i].event.type
           r == emitLoop(ObserversOf(obs, type), 1, obs, <<>>, type)
       IN publish(moments, i + 1, r.obs,
                  called \o [j \in DOMAIN r.called |->
                               [observer |-> r.called[j], event |-> moments[i].event,
                                saw |-> moments[i].saw]])

\* A manager call whose emits reach the subscribers of the bus.
Handled(moments) ==
  LET r == publish(moments, 1, observers, <<>>)
  IN /\ observers' = r.obs
     /\ delivered' = r.called
     /\ UNCHANGED <<pc, config>>
     /\ Apart

---------------------------------------------------------------------------
(* ClickerGameEngine: saveGame and loadGame.  The engine's StateManager is  *)
(* constructed with the StatisticsManager.                                  *)

\* snapshot({ totalClicks }) of the engine's StateManager: the statistics,
\* serialised after updateTimePlayed, and the custom state are part of it.
Engine_snapshot(st) ==
  LET state == snapshot(currencies, upgrades, paradigms, currentParadigm, achievements)
  IN [currencies |-> state.currencies,
      upgrades |-> state.upgrades,
      currentParadigm |-> state.currentParadigm,
      achievements |-> state.achievements,
      statistics |-> st,
      custom |-> [totalClicks |-> totalClicks]]

saveGame(key) ==
  LET st == Statistics_updateTimePlayed(stats, sessionStartTime, now)
  IN /\ op' = Op("saveGame", key, 0)
     /\ result' = "ok"
     /\ stats' = st
     /\ sessionStartTime' = now
     /\ storage' = MapSet(storage, [id |-> key, state |-> Engine_snapshot(st)])
     /\ events' = <<[type |-> "state:saved", key |-> key]>>
     /\ UNCHANGED <<currencies, upgrades, paradigms, currentParadigm, productionRates,
                    clickMultipliers, achievements, observers, delivered, loopVars,
                    totalClicks, clickTimeWindow, clickTimes, uiVars, now>>

\* loadGame: StateManager.load, which here also hands the saved statistics
\* to StatisticsManager.deserialize, and then the restore of totalClicks,
\* which is skipped for a saved value of 0.
\* An auto-save timer fires.
autoSave ==
  /\ autoSaveTimers > 0
  /\ saveGame("game-state")

loadGame(key) ==
  /\ load(key)
  /\ IF result' = "state"
     THEN LET state == MapGet(storage, key).state
          IN /\ stats' = state.statistics
             /\ sessionStartTime' = now
             /\ totalClicks' = IF state.custom.totalClicks # 0
                               THEN state.custom.totalClicks ELSE totalClicks
     ELSE UNCHANGED <<stats, sessionStartTime, totalClicks>>
  /\ UNCHANGED <<observers, delivered, loopVars, clickTimeWindow, clickTimes, uiVars, now>>

---------------------------------------------------------------------------
(* Specification of the currency operations: set, add and subtract with     *)
(* positive, zero and negative arguments, and click and tick, which go     *)
(* through add.                                                            *)

CurrencyIds == {"gold", "gems"}
AmountArgs == {-50, 0, 50}
RateArgs == {0, 50}
ClickArgs == {-50, 50}
TickArgs == {1000}

Next ==
  \/ \E c \in CurrencyIds : addCurrency(c, 0) /\ NoScript
  \/ \E c \in CurrencyIds, a \in AmountArgs : set(c, a) /\ NoScript
  \/ \E c \in CurrencyIds, a \in AmountArgs : add(c, a) /\ NoScript
  \/ \E c \in CurrencyIds, a \in AmountArgs : subtract(c, a) /\ NoScript
  \/ \E c \in CurrencyIds, r \in RateArgs : setProductionRate(c, r) /\ NoScript
  \/ \E c \in CurrencyIds, b \in ClickArgs : click(c, b) /\ NoScript
  \/ \E d \in TickArgs : tick(d) /\ NoScript

Spec == Init /\ [][Next]_vars

\* C1: in every reachable state every registered currency's amount is >= 0,
\* whatever set / add / subtract / click / tick calls were made.
C1_AmountNeverNegative ==
  \A i \in DOMAIN currencies : currencies[i].amount >= 0

\* C13: get of an unregistered id is 0; set, add and subtract on an
\* unregistered id throw, change no currency and publish nothing; addCurrency
\* of a registered id throws and leaves the registered amount as it is.
C13_UnknownAndDuplicateIds ==
  [][\A c \in CurrencyIds :
       /\ ~MapHas(currencies, c) => get(currencies, c) = 0
       /\ (op'.name \in {"set", "add", "subtract"} /\ op'.id = c /\ ~MapHas(currencies, c))
            => /\ result' = "throw"
               /\ currencies' = currencies
               /\ events' = <<>>
       /\ (op'.name = "addCurrency" /\ op'.id = c /\ MapHas(currencies, c))
            => /\ result' = "throw"
               /\ currencies' = currencies
               /\ events' = <<>>]_vars

\* add on an unregistered id threw while the other currency holds an amount.
C13_Witness ==
  /\ op.name = "add" /\ op.arg = 50
  /\ result = "throw"
  /\ ~MapHas(currencies, op.id)
  /\ \E i \in DOMAIN currencies : currencies[i].amount = 50

\* C14: every set, add or subtract that succeeds publishes exactly one
\* currency:changed, carrying the amount before and the amount after the
\* call, also when the two are the same.
C14_OneChangedEventPerCall ==
  [][\A c \in CurrencyIds :
       (op'.name \in {"set", "add", "subtract"} /\ op'.id = c /\ result' = "ok")
       => /\ Len(events') = 1
          /\ events'[1].type = "currency:changed"
          /\ events'[1].currencyId = c
          /\ events'[1].oldAmount = get(currencies, c)
          /\ events'[1].newAmount = get(currencies', c)]_vars

\* subtract at balance 0 published an event whose two amounts are both 0.
C14_Witness ==
  /\ op.name = "subtract" /\ op.arg = 50
  /\ result = "ok"
  /\ Len(events) = 1
  /\ events[1].type = "currency:changed"
  /\ events[1].oldAmount = 0 /\ events[1].newAmount = 0

\* C28: in every currency:changed event that set, add or subtract publishes,
\* change is newAmount - oldAmount, also when subtract clamps at 0.
C28_ChangeIsTheDifference ==
  [][op'.name \in {"set", "add", "subtract"}
     => \A i \in DOMAIN events' :
          events'[i].type = "currency:changed"
            => events'[i].change = events'[i].newAmount - events'[i].oldAmount]_vars

\* C30: a tick either credits every currency that has a positive rate and
\* publishes production:tick, or changes no balance, also when a positive
\* rate is set for an id that is not registered.
C30_TickIsAllOrNothing ==
  [][op'.name = "tick"
     => \/ /\ \A i \in DOMAIN productionRates :
                produces(productionRates[i].rate)
                  => /\ MapHas(currencies, productionRates[i].id)
                     /\ get(currencies', productionRates[i].id)
                          = get(currencies, productionRates[i].id)
                            + productionAmount(productionRates[i].rate, op'.arg,
                                               getCurrentMultiplier(paradigms, currentParadigm))
           /\ "production:tick" \in EventTypes(events')
        \/ currencies' = currencies]_vars

---------------------------------------------------------------------------
(* Specification of the upgrade purchases: three upgrades paid in gold, one *)
(* with the default scale factor, one with a scale factor of 1.5 and one   *)
(* that does not scale; gold is registered and funded in steps of 50.      *)

Upgrade(id, cost, currencyId, scalable, scaleFactor) ==
  [id |-> id, cost |-> cost, currencyId |-> currencyId, level |-> 0,
   purchased |-> FALSE, scalable |-> scalable, scaleFactor |-> scaleFactor]

UpgradeArgs ==
  { Upgrade("mine", 100, "gold", TRUE, <<>>),
    Upgrade("drill", 10, "gold", TRUE, <<150>>),
    Upgrade("lamp", 50, "gold", FALSE, <<>>) }

UpgradeIds == {u.id : u \in UpgradeArgs}

NextUpgrade ==
  \/ addCurrency("gold", 0) /\ NoScript
  \/ add("gold", 50) /\ NoScript
  \/ \E u \in UpgradeArgs : addUpgrade(u) /\ NoScript
  \/ \E u \in UpgradeIds : purchase(u) /\ NoScript

SpecUpgrade == Init /\ [][NextUpgrade]_vars

\* The entry of a registered upgrade, and what its purchase was charged.
UpgradeOf(upg, upgradeId) == MapGet(upg, upgradeId)

\* C2: purchase of an upgrade the balance does not cover returns false,
\* leaves the balance, the level and the purchased flag as they were and
\* publishes no currency:changed, upgrade:purchased or upgrade:leveled.
C2_UnaffordablePurchaseChangesNothing ==
  [][\A u \in UpgradeIds :
       (/\ op'.name = "purchase" /\ op'.id = u
        /\ MapHas(upgrades, u)
        /\ get(currencies, UpgradeOf(upgrades, u).currencyId) < calculateCost(UpgradeOf(upgrades, u)))
       => (/\ result' = "false"
           /\ currencies' = currencies
           /\ UpgradeOf(upgrades', u).level = UpgradeOf(upgrades, u).level
           /\ UpgradeOf(upgrades', u).purchased = UpgradeOf(upgrades, u).purchased
           /\ EventTypes(events') \cap
                {"currency:changed", "upgrade:purchased", "upgrade:leveled"} = {})]_vars

\* A purchase was refused although the upgrade and its currency are registered.
C2_Witness ==
  /\ op.name = "purchase" /\ result = "false"
  /\ MapHas(upgrades, op.id)
  /\ MapHas(currencies, UpgradeOf(upgrades, op.id).currencyId)
  /\ get(currencies, UpgradeOf(upgrades, op.id).currencyId) > 0

\* C3: purchase of an upgrade the balance covers returns true, takes exactly
\* the cost at the level before the purchase, raises the level by one, sets
\* purchased, and publishes upgrade:purchased (new level, cost paid) followed
\* by upgrade:leveled (new level).
C3_AffordablePurchase ==
  [][\A u \in UpgradeIds :
       (/\ op'.name = "purchase" /\ op'.id = u
        /\ MapHas(upgrades, u)
        /\ MapHas(currencies, UpgradeOf(upgrades, u).currencyId)
        /\ get(currencies, UpgradeOf(upgrades, u).currencyId) >= calculateCost(UpgradeOf(upgrades, u)))
       => LET before == UpgradeOf(upgrades, u)
              after == UpgradeOf(upgrades', u)
              cost == calculateCost(before)
          IN /\ result' = "true"
             /\ get(currencies', before.currencyId) = get(currencies, before.currencyId) - cost
             /\ after.level = before.level + 1
             /\ after.purchased
             /\ \E i \in DOMAIN events' :
                  /\ events'[i].type = "upgrade:purchased"
                  /\ events'[i].upgradeId = u
                  /\ events'[i].level = after.level
                  /\ events'[i].cost = cost
                  /\ i + 1 \in DOMAIN events'
                  /\ events'[i + 1].type = "upgrade:leveled"
                  /\ events'[i + 1].newLevel = after.level]_vars

\* A second purchase of the scaling upgrade went through, at the scaled cost.
C3_Witness ==
  /\ op.name = "purchase" /\ result = "true" /\ op.id = "mine"
  /\ UpgradeOf(upgrades, "mine").level = 2
  /\ \E i \in DOMAIN events : events[i].type = "upgrade:purchased" /\ events[i].cost = 115

\* The scale factor of an upgrade in hundredths, 1.15 when it gives none.
ScaleOf(upgrade) == IF upgrade.scaleFactor = <<>> THEN 115 ELSE upgrade.scaleFactor[1]

---------------------------------------------------------------------------
(* Specification of the paradigm operations.  An id is any string; the     *)
(* empty string is among the ids registered and switched to.               *)

ParadigmIds == {"", "stone", "iron"}
MultiplierArgs == {2, 3}

NextParadigm ==
  \/ \E p \in ParadigmIds, a \in BOOLEAN, m \in MultiplierArgs : addParadigm(p, a, m) /\ NoScript
  \/ \E p \in ParadigmIds : switchTo(p) /\ NoScript
  \/ \E p \in ParadigmIds : removeParadigm(p) /\ NoScript

SpecParadigm == Init /\ [][NextParadigm]_vars

\* The registered paradigms whose active flag is set.
ActiveParadigms == {i \in DOMAIN paradigms : paradigms[i].active}

\* C5: at most one registered paradigm is active, it is the one getCurrentId
\* names, and getCurrentMultiplier is its multiplier, or 1 when none is active.
C5_OneActiveParadigm ==
  /\ Cardinality(ActiveParadigms) <= 1
  /\ \A i \in ActiveParadigms : getCurrentId(currentParadigm) = <<paradigms[i].id>>
  /\ getCurrentMultiplier(paradigms, currentParadigm) =
       IF ActiveParadigms = {} THEN 1
       ELSE paradigms[CHOOSE i \in ActiveParadigms : TRUE].productionMultiplier

\* C15: addParadigm of a registered id throws and changes nothing; a
\* paradigm registered with active = true becomes the active one (the one
\* getCurrentId names) if no paradigm is active at that moment, and is
\* otherwise stored with active = false, the paradigms registered before and
\* the active paradigm staying as they are.
C15_FirstActiveWins ==
  [][\A p \in ParadigmIds :
       (op'.name = "addParadigm" /\ op'.id = p /\ op'.active)
       => IF MapHas(paradigms, p)
          THEN /\ result' = "throw"
               /\ paradigms' = paradigms
               /\ currentParadigm' = currentParadigm
          ELSE /\ result' = "ok"
               /\ \A i \in DOMAIN paradigms : paradigms'[i] = paradigms[i]
               /\ IF getCurrentId(currentParadigm) = <<>>
                  THEN MapGet(paradigms', p).active /\ getCurrentId(currentParadigm') = <<p>>
                  ELSE /\ ~MapGet(paradigms', p).active
                       /\ getCurrentId(currentParadigm') = getCurrentId(currentParadigm)]_vars

\* A paradigm was registered with active = true while another one was the
\* active one, and was stored with active = false.
C15_Witness ==
  /\ op.name = "addParadigm" /\ op.active
  /\ result = "ok"
  /\ ~MapGet(paradigms, op.id).active
  /\ currentParadigm # <<>> /\ currentParadigm # <<op.id>>
  /\ MapHas(paradigms, currentParadigm[1]) /\ MapGet(paradigms, currentParadigm[1]).active

\* C16: switchTo of an unregistered id throws, changes no paradigm and
\* publishes nothing; switchTo of a registered id publishes exactly one
\* paradigm:changed with that id and its multiplier, and, the event being
\* published last, its handlers run in the state the call leaves: the target
\* is the current paradigm and the only one whose active flag is set.
C16_SwitchToIsAtomic ==
  [][\A p \in ParadigmIds :
       /\ (op'.name = "switchTo" /\ op'.id = p /\ ~MapHas(paradigms, p))
            => /\ result' = "throw"
               /\ paradigms' = paradigms
               /\ currentParadigm' = currentParadigm
               /\ events' = <<>>
       /\ (op'.name = "switchTo" /\ op'.id = p /\ MapHas(paradigms, p))
            => /\ result' = "ok"
               /\ events' = <<[type |-> "paradigm:changed", paradigmId |-> p,
                               multiplier |-> MapGet(paradigms, p).productionMultiplier]>>
               /\ currentParadigm' = <<p>>
               /\ \A i \in DOMAIN paradigms' : paradigms'[i].active <=> paradigms'[i].id = p]_vars

---------------------------------------------------------------------------
(* Specification of the achievement operations: two achievements with      *)
(* targets 2 and 3, progress reported below, at and above the target.      *)

Achievement(id, target) == [id |-> id, unlocked |-> FALSE, progress |-> 0, target |-> target]

AchievementArgs == {Achievement("first", 2), Achievement("rich", 3)}
AchievementIds == {"first", "rich", "unknown"}
ProgressArgs == {0, 1, 2, 3, 4}

NextAchievement ==
  \/ \E a \in AchievementArgs : addAchievement(a) /\ NoScript
  \/ \E a \in AchievementIds, p \in ProgressArgs : updateProgress(a, p) /\ NoScript
  \/ \E a \in AchievementIds : unlockAchievement(a) /\ NoScript

SpecAchievement == Init /\ [][NextAchievement]_vars

\* C8: updateProgress on an unlocked achievement changes neither its unlocked
\* flag nor its progress (nor anything else) and publishes no event.
C8_UnlockedIgnoresProgress ==
  [][\A a \in AchievementIds :
       (/\ op'.name = "updateProgress" /\ op'.id = a
        /\ MapHas(achievements, a)
        /\ MapGet(achievements, a).unlocked)
       => (/\ MapGet(achievements', a).unlocked
           /\ MapGet(achievements', a).progress = MapGet(achievements, a).progress
           /\ achievements' = achievements
           /\ events' = <<>>)]_vars

\* updateProgress was called with a progress below the target on an
\* achievement that was unlocked before the call (the call published nothing).
C8_Witness ==
  /\ op.name = "updateProgress" /\ events = <<>>
  /\ MapHas(achievements, op.id)
  /\ MapGet(achievements, op.id).unlocked
  /\ op.arg < MapGet(achievements, op.id).target
  /\ MapGet(achievements, op.id).progress = MapGet(achievements, op.id).target

\* C17: updateProgress on a registered, locked achievement publishes exactly
\* one event: achievement:unlocked when the progress meets the target, the
\* achievement then being unlocked with its progress at the target, and
\* achievement:progress when it does not.
C17_OneEventPerUpdate ==
  [][\A a \in AchievementIds, p \in ProgressArgs :
       (/\ op'.name = "updateProgress" /\ op'.id = a /\ op'.arg = p
        /\ MapHas(achievements, a) /\ ~MapGet(achievements, a).unlocked)
       => IF p >= MapGet(achievements, a).target
          THEN /\ Len(events') = 1
               /\ events'[1].type = "achievement:unlocked"
               /\ MapGet(achievements', a).unlocked
               /\ MapGet(achievements', a).progress = MapGet(achievements, a).target
          ELSE /\ Len(events') = 1
               /\ events'[1].type = "achievement:progress"]_vars

---------------------------------------------------------------------------
(* Specification of production: two currencies, rates that are negative,   *)
(* zero, positive or never set, a click multiplier of 3 on gold, and a     *)
(* paradigm of multiplier 2 that is registered active, registered inactive *)
(* or switched to.                                                         *)

ProductionRateArgs == {-10, 0, 10}
ClickBaseArgs == {1, 2}

NextProduction ==
  \/ \E c \in CurrencyIds : addCurrency(c, 0) /\ NoScript
  \/ \E c \in CurrencyIds, r \in ProductionRateArgs : setProductionRate(c, r) /\ NoScript
  \/ setClickMultiplier("gold", 3) /\ NoScript
  \/ \E a \in BOOLEAN : addParadigm("industrial", a, 2) /\ NoScript
  \/ switchTo("industrial") /\ NoScript
  \/ tick(1000) /\ AtMost(currencies', MaxProduced) /\ NoScript
  \/ \E b \in ClickBaseArgs : click("gold", b) /\ AtMost(currencies', MaxProduced) /\ NoScript

SpecProduction == Init /\ [][NextProduction]_vars

\* The multiplier of the active paradigm, 1 when no paradigm is active.
ActiveMultiplier ==
  IF ActiveParadigms = {} THEN 1
  ELSE paradigms[CHOOSE i \in ActiveParadigms : TRUE].productionMultiplier

\* The rate set for a currency and whether one was set.
RateSet(c) == \E i \in DOMAIN productionRates : productionRates[i].id = c
RateOf(c) == productionRates[CHOOSE i \in DOMAIN productionRates : productionRates[i].id = c].rate
Credited(c) == RateSet(c) /\ RateOf(c) > 0

\* The click multiplier of a currency, 1 when none was set.
ClickMultiplierOf(c) ==
  IF \E i \in DOMAIN clickMultipliers : clickMultipliers[i].id = c
  THEN clickMultipliers[CHOOSE i \in DOMAIN clickMultipliers : clickMultipliers[i].id = c].multiplier
  ELSE 1

\* The positions in a sequence of events of the events of one type.
EventsOfType(evs, type) == {i \in DOMAIN evs : evs[i].type = type}

\* C6: tick(dt) adds rate * (dt / 1000) * multiplier to every currency whose
\* rate is positive, leaves the others alone (no currency:changed for them)
\* and publishes exactly one production:tick{dt}, after the additions; rate
\* 10 under a multiplier of 2 gains exactly 20 in tick(1000).
C6_TickCreditsPositiveRates ==
  [][(/\ op'.name = "tick"
      /\ \A c \in CurrencyIds : Credited(c) => MapHas(currencies, c))
     => LET dt == op'.arg
        IN /\ result' = "ok"
           /\ \A c \in MapKeys(currencies) :
                /\ Credited(c) =>
                     /\ get(currencies', c) =
                          get(currencies, c) + (RateOf(c) * dt * ActiveMultiplier) \div 1000
                     /\ (RateOf(c) * dt * ActiveMultiplier) % 1000 = 0
                     /\ Cardinality({i \in EventsOfType(events', "currency:changed") :
                                       events'[i].currencyId = c}) = 1
                     /\ (RateOf(c) = 10 /\ ActiveMultiplier = 2 /\ dt = 1000) =>
                          get(currencies', c) = get(currencies, c) + 20
                /\ ~Credited(c) =>
                     /\ get(currencies', c) = get(currencies, c)
                     /\ \A i \in EventsOfType(events', "currency:changed") :
                          events'[i].currencyId # c
           /\ EventsOfType(events', "production:tick") = {Len(events')}
           /\ events'[Len(events')].deltaTimeMs = dt]_vars

\* A tick credited gold 20 (rate 10, multiplier 2) and left gems, which is
\* registered with a rate that is not positive, without an event.
C6_Witness ==
  /\ op.name = "tick" /\ result = "ok"
  /\ MapKeys(currencies) = {"gold", "gems"}
  /\ RateSet("gems") /\ RateOf("gems") <= 0
  /\ Len(events) = 2
  /\ events[1].type = "currency:changed" /\ events[1].currencyId = "gold"
  /\ events[1].change = 20
  /\ events[2].type = "production:tick"

\* C7: click(currencyId, base) adds base * clickMultiplier * multiplier
\* (click multiplier 1 when never set) and publishes game:click whose
\* finalAmount is the amount added; click multiplier 3 under a paradigm
\* multiplier of 2 adds exactly 6 for click('gold', 1).
C7_ClickAddsFinalAmount ==
  [][\A c \in CurrencyIds :
       (/\ op'.name = "click" /\ op'.id = c
        /\ MapHas(currencies, c))
       => LET added == get(currencies', c) - get(currencies, c)
          IN /\ result' = "ok"
             /\ added = op'.arg * ClickMultiplierOf(c) * ActiveMultiplier
             /\ \A o \in MapKeys(currencies) \ {c} : get(currencies', o) = get(currencies, o)
             /\ Cardinality(EventsOfType(events', "game:click")) = 1
             /\ \A i \in EventsOfType(events', "game:click") :
                  events'[i].currencyId = c /\ events'[i].finalAmount = added
             /\ (op'.arg = 1 /\ ClickMultiplierOf(c) = 3 /\ ActiveMultiplier = 2) =>
                  (added = 6 /\ \A i \in EventsOfType(events', "game:click") :
                                  events'[i].finalAmount = 6)]_vars

\* click('gold', 1) under click multiplier 3 and paradigm multiplier 2
\* reported a final amount of 6.
C7_Witness ==
  /\ op.name = "click" /\ op.id = "gold" /\ op.arg = 1 /\ result = "ok"
  /\ \E i \in DOMAIN events :
       /\ events[i].type = "game:click"
       /\ events[i].clickMultiplier = 3
       /\ events[i].paradigmMultiplier = 2
       /\ events[i].finalAmount = 6

---------------------------------------------------------------------------
(* Specification of save and load: one currency, one upgrade, one paradigm *)
(* and one achievement are registered and played with; the state is saved  *)
(* under one key and loaded from it or from a key nothing was saved under. *)

StorageKeys == {"game-state", "empty-slot"}

\* The paradigms of SpecLoad.
LoadParadigmIds == {"stone", "iron"}

NextState ==
  \/ addCurrency("gold", 0) /\ NoScript
  \/ addUpgrade(Upgrade("torch", 1, "gold", TRUE, <<200>>)) /\ NoScript
  \/ addParadigm("industrial", FALSE, 2) /\ NoScript
  \/ addAchievement(Achievement("first", 2)) /\ NoScript
  \/ setProductionRate("gold", 1) /\ NoScript
  \/ click("gold", 1) /\ AtMost(currencies', MaxSaved) /\ NoScript
  \/ tick(1000) /\ AtMost(currencies', MaxSaved) /\ NoScript
  \/ purchase("torch") /\ NoScript
  \/ switchTo("industrial") /\ NoScript
  \/ \E p \in {1, 2} : updateProgress("first", p) /\ NoScript
  \/ save("game-state") /\ NoScript
  \/ \E k \in StorageKeys : load(k) /\ NoScript

SpecState == Init /\ [][NextState]_vars

\* The ids of a saved record.
SavedIds(saved) == {saved[i].id : i \in DOMAIN saved}

\* The active paradigm a snapshot was taken under: none when it says
\* 'default' (no paradigm of that name is ever registered here).
SavedParadigm(state) ==
  IF state.currentParadigm = "default" THEN <<>> ELSE <<state.currentParadigm>>

\* C9: load(key), with the entities of the saved state S registered, gives
\* back the currency amounts, the upgrade levels, the active paradigm id and
\* the achievements' unlocked flags and progress of S, also when S had no
\* active paradigm.
C9_LoadRestoresSavedState ==
  [][\A k \in StorageKeys :
       (/\ op'.name = "load" /\ op'.id = k
        /\ MapHas(storage, k)
        /\ SavedIds(MapGet(storage, k).state.currencies) = MapKeys(currencies)
        /\ SavedIds(MapGet(storage, k).state.upgrades) = MapKeys(upgrades)
        /\ SavedIds(MapGet(storage, k).state.achievements) = MapKeys(achievements))
       => LET state == MapGet(storage, k).state
          IN /\ getAllAsRecord(currencies') = state.currencies
             /\ getAsRecord(upgrades') = state.upgrades
             /\ Achievement_serialize(achievements') = state.achievements
             /\ getCurrentId(currentParadigm') = SavedParadigm(state)
             /\ \A i \in DOMAIN paradigms' :
                  paradigms'[i].active <=> SavedParadigm(state) = <<paradigms'[i].id>>]_vars

---------------------------------------------------------------------------
(* Specification of load against a game that changed since the save: two   *)
(* currencies, an upgrade, a paradigm and an achievement are registered and *)
(* played with, the currencies and the upgrade are removed again; the      *)
(* state is saved under one key and loaded from it or from a key nothing   *)
(* was saved under.                                                        *)

NextLoad ==
  \/ \E c \in CurrencyIds : addCurrency(c, 0) /\ NoScript
  \/ \E c \in CurrencyIds : removeCurrency(c) /\ NoScript
  \/ addUpgrade(Upgrade("torch", 1, "gold", TRUE, <<200>>)) /\ NoScript
  \/ removeUpgrade("torch") /\ NoScript
  \/ addParadigm("stone", FALSE, 2) /\ NoScript
  \/ switchTo("stone") /\ NoScript
  \/ addAchievement(Achievement("first", 2)) /\ NoScript
  \/ updateProgress("first", 1) /\ NoScript
  \/ click("gold", 1) /\ AtMost(currencies', 1) /\ NoScript
  \/ purchase("torch") /\ NoScript
  \/ save("game-state") /\ NoScript
  \/ \E k \in StorageKeys : load(k) /\ NoScript

SpecLoad == Init /\ [][NextLoad]_vars

\* C22: a load that returns null, because nothing is stored under the key or
\* because the restore failed part-way, has modified no currency amount,
\* upgrade level, active paradigm or achievement and has published no
\* state:loaded event.
C22_NullLoadChangesNothing ==
  [][(op'.name = "load" /\ result' = "null")
     => /\ UNCHANGED <<currencies, upgrades, paradigms, currentParadigm, achievements>>
        /\ "state:loaded" \notin EventTypes(events')]_vars

---------------------------------------------------------------------------
(* Specification of the engine's save and load against paradigms that come *)
(* and go: a currency, an upgrade and an achievement are registered; then  *)
(* the currency is clicked once, the upgrade purchased, the achievement    *)
(* advanced, two paradigms are registered, switched to and removed, the    *)
(* game is saved under one key and loaded from it or from a key nothing    *)
(* was saved under.                                                        *)

\* The currency, the upgrade and the achievement are registered.
SetUp == currencies # <<>> /\ upgrades # <<>> /\ achievements # <<>>

NextParadigmLoad ==
  \/ currencies = <<>> /\ addCurrency("gold", 0) /\ NoScript
  \/ currencies # <<>> /\ upgrades = <<>>
       /\ addUpgrade(Upgrade("torch", 1, "gold", TRUE, <<200>>)) /\ NoScript
  \/ upgrades # <<>> /\ achievements = <<>>
       /\ addAchievement(Achievement("first", 2)) /\ NoScript
  \/ SetUp /\ \E p \in LoadParadigmIds : addParadigm(p, FALSE, 2) /\ NoScript
  \/ SetUp /\ \E p \in LoadParadigmIds : removeParadigm(p) /\ NoScript
  \/ SetUp /\ \E p \in LoadParadigmIds : switchTo(p) /\ NoScript
  \/ SetUp /\ totalClicks < 1 /\ Engine_click("gold", 1) /\ UNCHANGED <<pc, config>>
  \/ SetUp /\ purchase("torch") /\ NoScript
  \/ SetUp /\ updateProgress("first", 1) /\ NoScript
  \/ SetUp /\ saveGame("game-state") /\ UNCHANGED <<pc, config>>
  \/ SetUp /\ \E k \in StorageKeys : loadGame(k) /\ UNCHANGED <<pc, config>>

SpecParadigmLoad == Init /\ [][NextParadigmLoad]_vars

\* C24: a load that finds a stored state returns it, publishes state:loaded
\* and restores the saved currency amounts, upgrade levels, achievements and
\* statistics, whether or not the saved paradigm id is registered; when it is
\* not registered the paradigms and the current paradigm stay as they are
\* and no paradigm:changed is published; when it is registered it is the
\* current paradigm after the load and its active flag is set.
C24_LoadAndSavedParadigm ==
  [][\A k \in StorageKeys :
       (op'.name = "load" /\ op'.id = k /\ MapHas(storage, k))
       => LET state == MapGet(storage, k).state
              savedId == state.currentParadigm
          IN /\ result' = "state"
             /\ "state:loaded" \in EventTypes(events')
             /\ \A i \in DOMAIN state.currencies :
                  get(currencies', state.currencies[i].id) = state.currencies[i].amount
             /\ \A i \in DOMAIN state.upgrades :
                  MapGet(upgrades', state.upgrades[i].id).level = state.upgrades[i].level
             /\ \A i \in DOMAIN state.achievements :
                  LET saved == state.achievements[i]
                  IN MapHas(achievements', saved.id)
                       => /\ MapGet(achievements', saved.id).unlocked = saved.unlocked
                          /\ MapGet(achievements', saved.id).progress = saved.progress
             /\ stats' = state.statistics
             /\ IF isAvailable(paradigms, savedId)
                THEN /\ getCurrentId(currentParadigm') = <<savedId>>
                     /\ MapGet(paradigms', savedId).active
                ELSE /\ UNCHANGED <<paradigms, currentParadigm>>
                     /\ "paradigm:changed" \notin EventTypes(events')]_vars

\* A load has found a state saved under a paradigm that was removed since,
\* while another paradigm is current; the saved amount, level, progress and
\* click statistics differ from the ones the load found.
C24_Witness ==
  /\ op.name = "load" /\ result = "state"
  /\ MapHas(storage, op.id)
  /\ MapGet(storage, op.id).state.currentParadigm = "iron"
  /\ ~isAvailable(paradigms, "iron")
  /\ currentParadigm = <<"stone">>
  /\ \E i \in DOMAIN events : events[i].type = "currency:changed" /\ events[i].change # 0
  /\ \E i \in DOMAIN upgrades : upgrades[i].id = "torch"
  /\ \E i \in DOMAIN achievements : achievements[i].id = "first"

---------------------------------------------------------------------------
(* Specification of the managers with handlers: a handler that throws and  *)
(* one that returns are subscribed, in this order, to every event type     *)
(* below; then two currencies, an upgrade, a paradigm and two production   *)
(* rates are registered, and then every manager call that publishes one of *)
(* the events is made.                                                     *)

HandledTypes ==
  <<"currency:changed", "upgrade:purchased", "paradigm:changed", "game:click",
    "production:tick">>

Handlers == <<Observer("fail"), Observer("log")>>

\* Whether the handlers of the type are subscribed.
SubscribedTo(eventType) == ObserversOf(observers, eventType) = Handlers

\* Whether the next subscription to make is this one: the types are
\* subscribed to in the order above, the handlers of a type in theirs.
IsNext(t, observer) ==
  LET n == Len(ObserversOf(observers, HandledTypes[t]))
  IN /\ \A u \in 1..(t - 1) : SubscribedTo(HandledTypes[u])
     /\ n < Len(Handlers)
     /\ observer = Handlers[n + 1]

Subscribed == \A t \in DOMAIN HandledTypes : SubscribedTo(HandledTypes[t])

\* The game of the specification is registered: gold, gems, the upgrade,
\* the paradigm and the two production rates, in this order.
Registered == Len(productionRates) = 2

NextHandlers ==
  \/ \E t \in DOMAIN HandledTypes, f \in {"fail", "log"} :
       IsNext(t, Observer(f)) /\ on(HandledTypes[t], Observer(f)) /\ UNCHANGED <<pc, config>> /\ Apart
  \/ Subscribed /\ currencies = <<>> /\ addCurrency("gold", 2) /\ Handled(<<>>)
  \/ Len(currencies) = 1 /\ addCurrency("gems", 0) /\ Handled(<<>>)
  \/ Len(currencies) = 2 /\ upgrades = <<>>
       /\ addUpgrade(Upgrade("torch", 1, "gold", FALSE, <<>>)) /\ Handled(<<>>)
  \/ upgrades # <<>> /\ paradigms = <<>> /\ addParadigm("stone", FALSE, 2) /\ Handled(<<>>)
  \/ paradigms # <<>> /\ productionRates = <<>> /\ setProductionRate("gold", 1) /\ Handled(<<>>)
  \/ Len(productionRates) = 1 /\ setProductionRate("gems", 1) /\ Handled(<<>>)
  \/ Registered /\ \E c \in CurrencyIds, a \in {0, 2} :
       set(c, a) /\ Handled(currencyMoments(Currency_set(currencies, c, a)))
  \/ Registered /\ \E c \in CurrencyIds :
       add(c, 1) /\ AtMost(currencies', 3)
         /\ Handled(currencyMoments(Currency_add(currencies, c, 1)))
  \/ Registered /\ \E c \in CurrencyIds, a \in {1, 3} :
       subtract(c, a) /\ Handled(currencyMoments(Currency_subtract(currencies, c, a)))
  \/ Registered /\ purchase("torch") /\ Handled(purchaseMoments("torch"))
  \/ Registered /\ switchTo("stone") /\ Handled(switchToMoments("stone"))
  \/ Registered /\ click("gold", 1) /\ AtMost(currencies', 3)
       /\ Handled(clickMoments("gold", 1, events'))
  \/ Registered /\ tick(1000) /\ AtMost(currencies', 3)
       /\ Handled(tickMoments(productionRates, 1, currencies, <<>>, 1000,
                              getCurrentMultiplier(paradigms, currentParadigm)))

SpecHandlers == Init /\ [][NextHandlers]_vars

\* C25: in every call of set, add, subtract, purchase, switchTo, click and
\* tick, every handler subscribed to the type of an event the call publishes
\* has been called with it when the call returns, also after a handler that
\* throws, and each handler was called with the mutation already made:
\* currency:changed finds get(currencyId) = newAmount, upgrade:purchased
\* finds the level of the payload and the cost deducted, paradigm:changed
\* finds getCurrentId() = paradigmId, game:click finds the amount credited.
C25_HandlersSeeTheMutation ==
  [][op'.name \in {"set", "add", "subtract", "purchase", "switchTo", "click", "tick"}
     => /\ \A i \in DOMAIN events' :
             \A k \in DOMAIN ObserversOf(observers, events'[i].type) :
               \E j \in DOMAIN delivered' :
                 /\ delivered'[j].observer = ObserversOf(observers, events'[i].type)[k]
                 /\ delivered'[j].event = events'[i]
        /\ \A j \in DOMAIN delivered' :
             LET e == delivered'[j].event
                 saw == delivered'[j].saw
             IN /\ \E i \in DOMAIN events' : events'[i] = e
                /\ e.type = "currency:changed"
                     => get(saw.currencies, e.currencyId) = e.newAmount
                /\ e.type = "upgrade:purchased"
                     => LET currencyId == MapGet(upgrades, e.upgradeId).currencyId
                        IN /\ MapGet(saw.upgrades, e.upgradeId).level = e.level
                           /\ get(saw.currencies, currencyId)
                                = get(currencies, currencyId) - e.cost
                /\ e.type = "paradigm:changed"
                     => getCurrentId(saw.currentParadigm) = <<e.paradigmId>>
                /\ e.type = "game:click"
                     => get(saw.currencies, e.currencyId)
                          = get(currencies, e.currencyId) + e.finalAmount]_vars

\* A purchase went through: the throwing handler and the returning handler
\* of currency:changed were called, and then those of upgrade:purchased.
C25_Witness ==
  /\ op.name = "purchase" /\ result = "true"
  /\ Len(delivered) = 4
  /\ delivered[1].observer = Observer("fail") /\ delivered[1].event.type = "currency:changed"
  /\ delivered[2].observer = Observer("log")
  /\ delivered[4].observer = Observer("log") /\ delivered[4].event.type = "upgrade:purchased"
  /\ MapGet(delivered[2].saw.upgrades, "torch").level = 0
  /\ MapGet(delivered[4].saw.upgrades, "torch").level = 1

---------------------------------------------------------------------------
(* Specification of the click counter across save and load: a currency is  *)
(* registered and clicked, the game is saved under either key and loaded.  *)

\* Clicks are followed while the counter and the click window are short.
FewClicks == totalClicks < MaxClicks /\ Len(clickTimeWindow) < MaxClicks

NextClicks ==
  \/ addCurrency("gold", 0) /\ NoScript
  \/ FewClicks /\ Engine_click("gold", 1) /\ UNCHANGED <<pc, config>>
  \/ \E k \in StorageKeys : saveGame(k) /\ UNCHANGED <<pc, config>>
  \/ \E k \in StorageKeys : loadGame(k) /\ UNCHANGED <<pc, config>>

SpecClicks == Init /\ [][NextClicks]_vars

\* C26: loadGame(key) of a game saved under key leaves getTotalClicks() at
\* the value it had at that saveGame(key), whatever was clicked in between
\* and whatever the value, 0 included.
C26_LoadRestoresTotalClicks ==
  [][\A k \in StorageKeys :
       (op'.name = "load" /\ op'.id = k /\ MapHas(storage, k))
       => totalClicks' = MapGet(storage, k).state.custom.totalClicks]_vars

---------------------------------------------------------------------------
(* Specification of the click statistics: recordClick is called on a new   *)
(* StatisticsManager while the clock stands still or moves on, by half a   *)
(* second or by 999 ms at a time, between the calls.                       *)

ElapseArgs == {500, 999}

NextStatistics ==
  \/ Len(clickTimes) < MaxCalls /\ recordClick /\ UNCHANGED <<pc, config>>
  \/ \E ms \in ElapseArgs : elapse(ms)

SpecStatistics == Init /\ [][NextStatistics]_vars

\* The size of the click window after call k: the calls up to k that are
\* less than a second older than call k.
WindowSizeAt(k) == Cardinality({i \in 1..k : clickTimes[k] - clickTimes[i] < 1000})

\* C27: after any sequence of recordClick calls, totalClicks is the number
\* of calls, the click window holds exactly the clock values of the calls
\* that were less than 1000 ms old at the last call, and fastestClick is the
\* largest size the window had after any call.
C27_ClickStatistics ==
  LET n == Len(clickTimes)
  IN /\ stats.totalClicks = n
     /\ clickTimeWindow =
          (IF n = 0 THEN <<>>
           ELSE SelectSeq(clickTimes, LAMBDA t : clickTimes[n] - t < 1000))
     /\ \A k \in 1..n : WindowSizeAt(k) <= stats.fastestClick
     /\ IF n = 0 THEN stats.fastestClick = 0
        ELSE \E k \in 1..n : WindowSizeAt(k) = stats.fastestClick

\* Four calls: three within a second, which is the peak, and a fourth one
\* exactly a second after the third, alone in its window.
C27_Witness ==
  /\ op.name = "recordClick"
  /\ Len(clickTimes) = 4
  /\ clickTimes[4] - clickTimes[3] = 1000
  /\ clickTimeWindow = <<clickTimes[4]>>
  /\ stats.fastestClick = 3
  /\ stats.totalClicks = 4

---------------------------------------------------------------------------
(* Specification of the game loop with a handler of production:tick that   *)
(* calls the engine: gold is registered and produced, the engine is        *)
(* started, paused, resumed and reset from outside, time passes, and the   *)
(* browser runs the pending frame callbacks; inside a tick the handler     *)
(* does nothing, pauses, resumes, or pauses and resumes the engine.        *)

HandlerCallArgs == {<<>>, <<"pause">>, <<"resume">>, <<"pause", "resume">>}

NextHandlerLoop ==
  \/ addCurrency("gold", 0) /\ NoScript
  \/ setProductionRate("gold", 1) /\ NoScript
  \/ start /\ UNCHANGED <<pc, config>>
  \/ pause /\ UNCHANGED <<pc, config>>
  \/ resume /\ Cardinality(scheduled') <= MaxPending /\ UNCHANGED <<pc, config>>
  \/ reset /\ UNCHANGED <<pc, config>>
  \/ \E h \in scheduled : gameLoop(h) /\ UNCHANGED <<pc, config>>
  \/ \E h \in scheduled, calls \in HandlerCallArgs :
       gameLoopHandled(h, calls) /\ Cardinality(scheduled') <= MaxPending /\ UNCHANGED <<pc, config>>
  \/ passTime

SpecHandlerLoop == Init /\ [][NextHandlerLoop]_vars

\* C29: at most one frame callback is pending at any time, whatever start,
\* pause, resume and reset calls are made, from outside or by a handler that
\* runs inside a tick.
C29_OnePendingCallback == Cardinality(scheduled) <= 1

---------------------------------------------------------------------------
(* Specification of the StateManager over a storage adapter that may throw *)
(* in any of its four methods, at any call: a currency is registered and   *)
(* clicked, the state is saved, loaded, deleted and looked for.            *)

NextAdapter ==
  \/ addCurrency("gold", 0) /\ NoScript
  \/ click("gold", 1) /\ AtMost(currencies', MaxSaved) /\ NoScript
  \/ \E k \in StorageKeys : save(k) /\ NoScript
  \/ \E k \in StorageKeys : saveThrowing(k) /\ NoScript
  \/ \E k \in StorageKeys : load(k) /\ NoScript
  \/ \E k \in StorageKeys : loadThrowing(k) /\ NoScript
  \/ \E k \in StorageKeys, thrown \in BOOLEAN : delete(k, thrown) /\ NoScript
  \/ \E k \in StorageKeys, thrown \in BOOLEAN : exists(k, thrown) /\ NoScript

SpecAdapter == Init /\ [][NextAdapter]_vars

\* C23: no call of save, load, delete or exists ends with an exception,
\* whether or not the storage adapter throws during it; a save during which
\* the adapter throws publishes no state:saved, and a load during which it
\* throws returns null.
C23_AdapterThrowsAreCaught ==
  [][op'.name \in {"save", "load", "delete", "exists"}
     => /\ result' # "throw"
        /\ (op'.name = "save" /\ op'.arg = 1) => "state:saved" \notin EventTypes(events')
        /\ (op'.name = "load" /\ op'.arg = 1) => result' = "null"]_vars

---------------------------------------------------------------------------
(* Specification of the scenario: pc counts the calls made so far.  gold is *)
(* registered at 0; the click multiplier of gold is left unset or set to 1; *)
(* click('gold') is called 100 times; the upgrade worker is registered and  *)
(* purchased once; the production rate of gold is set to 1; tick(5000).     *)

Step == pc' = pc + 1 /\ UNCHANGED config /\ Direct

NextScenario ==
  \/ pc = 0 /\ addCurrency("gold", 0) /\ Step
  \/ pc = 1 /\ clickMultipliers = <<>> /\ setClickMultiplier("gold", 1) /\ NoScript
  \/ pc \in 1..100 /\ click("gold", 1) /\ Step
  \/ pc = 101 /\ addUpgrade(Upgrade("worker", 50, "gold", TRUE, <<115>>)) /\ Step
  \/ pc = 102 /\ purchase("worker") /\ Step
  \/ pc = 103 /\ setProductionRate("gold", 1) /\ Step
  \/ pc = 104 /\ tick(5000) /\ Step

SpecScenario == Init /\ [][NextScenario]_vars

\* C10: in the scenario, the n-th click leaves gold = n, so that 100 clicks
\* give get('gold') = 100; the purchase of worker returns true, is published
\* with cost 50 and leaves gold = 50 and worker at level 1; tick(5000) at
\* production rate 1 leaves gold = 55.
C10_Scenario ==
  /\ pc \in 1..101 => get(currencies, "gold") = pc - 1
  /\ pc = 102 => get(currencies, "gold") = 100
  /\ pc \in {103, 104} =>
       /\ get(currencies, "gold") = 50
       /\ MapGet(upgrades, "worker").level = 1
       /\ MapGet(upgrades, "worker").purchased
  /\ pc = 103 =>
       /\ result = "true"
       /\ \E i \in DOMAIN events :
            /\ events[i].type = "upgrade:purchased"
            /\ events[i].upgradeId = "worker"
            /\ events[i].cost = 50
  /\ pc = 105 => get(currencies, "gold") = 55

C10_Witness ==
  /\ pc = 105
  /\ op.name = "tick" /\ op.arg = 5000
  /\ getProductionRate(productionRates, "gold") = 1
  /\ MapGet(upgrades, "worker").level = 1

---------------------------------------------------------------------------
(* Specification of the event bus: observers that return, throw, subscribe, *)
(* unsubscribe or clear while they are called are subscribed to one event   *)
(* type, directly or through once; a second type has an observer of its own.*)

BusTypes == {"game:click", "production:tick"}
BusFns == {"log", "fail", "evict", "cancel", "invite", "wipe"}

\* Subscribing is followed up to MaxObservers observers of a type.
Room(eventType) == Len(ObserversOf(observers, eventType)) < MaxObservers

NextBus ==
  \/ \E f \in BusFns : Room("game:click") /\ on("game:click", Observer(f)) /\ UNCHANGED <<pc, config>> /\ Apart
  \/ Room("production:tick") /\ on("production:tick", Observer("log")) /\ UNCHANGED <<pc, config>> /\ Apart
  \/ /\ Room("game:click") /\ ~InSet(ObserversOf(observers, "game:click"), Wrapper("log"))
     /\ once("game:click", "log") /\ UNCHANGED <<pc, config>> /\ Apart
  \/ \E f \in BusFns : off("game:click", Observer(f)) /\ UNCHANGED <<pc, config>> /\ Apart
  \/ \E f \in BusFns : unsubscribe("game:click", Observer(f)) /\ UNCHANGED <<pc, config>> /\ Apart
  \/ \E t \in {<<>>, <<"production:tick">>} : clearObservers(t) /\ UNCHANGED <<pc, config>> /\ Apart
  \/ \E t \in BusTypes : emit(t) /\ UNCHANGED <<pc, config>> /\ Apart

SpecBus == Init /\ [][NextBus]_vars

\* C11: an emit calls every observer subscribed to the type exactly once, in
\* the order of subscription, before it returns, and returns normally: an
\* observer that throws ends neither the delivery nor the emit.
C11_EmitCallsEveryObserver ==
  [][\A t \in BusTypes :
       (op'.name = "emit" /\ op'.id = t)
       => /\ delivered' = ObserversOf(observers, t)
          /\ \A i, j \in DOMAIN delivered' : delivered'[i] = delivered'[j] => i = j
          /\ result' = "ok"]_vars

\* An emit called an observer that throws and then the observers after it.
C11_Witness ==
  /\ op.name = "emit"
  /\ \E i, j \in DOMAIN delivered :
       i < j /\ Behaviour(delivered[i].fn).throws /\ ~Behaviour(delivered[j].fn).throws

\* Every observer the bus can hold in SpecBus.
BusObservers == {Observer(f) : f \in BusFns \cup {"late"}} \cup {Wrapper("log")}

\* C12: the observers one emit calls are exactly those subscribed to the type
\* when the emit starts: one that another observer takes off during the
\* delivery (off, the function on returned, clear) is still called, and one
\* subscribed during the delivery is not.
C12_EmitCallsSubscribedAtStart ==
  [][\A t \in BusTypes :
       (op'.name = "emit" /\ op'.id = t)
       => \A o \in BusObservers :
            /\ InSet(delivered', o) <=> InSet(ObserversOf(observers, t), o)
            /\ (InSet(ObserversOf(observers, t), o) /\ ~InSet(ObserversOf(observers', t), o))
                 => InSet(delivered', o)
            /\ (~InSet(ObserversOf(observers, t), o) /\ InSet(ObserversOf(observers', t), o))
                 => ~InSet(delivered', o)]_vars

\* An emit in which evict took log off before log's turn, log being called
\* all the same, and in which invite subscribed late, which was not called.
C12_Witness ==
  /\ op.name = "emit" /\ op.id = "game:click"
  /\ \E i, j \in DOMAIN delivered :
       i < j /\ delivered[i] = Observer("evict") /\ delivered[j] = Observer("log")
  /\ ~InSet(ObserversOf(observers, "game:click"), Observer("log"))
  /\ InSet(delivered, Observer("invite"))
  /\ InSet(ObserversOf(observers, "game:click"), Observer("late"))
  /\ ~InSet(delivered, Observer("late"))

---------------------------------------------------------------------------
(* Specification of the game loop: gold is registered and produces 1 per    *)
(* second, gems produce without being registered, so that a tick can throw; *)
(* the engine is started, paused and resumed while time passes, the        *)
(* browser runs the frames that are pending and the auto-save timers fire.  *)

NextLoop ==
  \/ addCurrency("gold", 0) /\ NoScript
  \/ \E c \in CurrencyIds : setProductionRate(c, 1) /\ NoScript
  \/ start /\ UNCHANGED <<pc, config>>
  \/ pause /\ UNCHANGED <<pc, config>>
  \/ resume /\ UNCHANGED <<pc, config>>
  \/ \E h \in scheduled : gameLoop(h) /\ UNCHANGED <<pc, config>>
  \/ autoSave /\ UNCHANGED <<pc, config>>
  \/ passTime

SpecLoop == Init /\ [][NextLoop]_vars

\* C19: start when not running makes the engine run and publishes
\* game:started, start when running changes nothing and publishes nothing;
\* pause when running stops it, leaves no frame callback pending and
\* publishes game:paused, pause when not running changes nothing; resume when
\* not running makes it run, with one frame callback pending, and publishes
\* game:resumed, resume when running changes nothing.
C19_Lifecycle ==
  [][/\ (op'.name = "start" /\ ~isRunning)
          => isRunning' /\ events' = <<[type |-> "game:started"]>>
     /\ (op'.name \in {"start", "resume"} /\ isRunning)
          => /\ UNCHANGED <<loopVars, managerVars, totalClicks, statsVars>>
             /\ events' = <<>>
     /\ (op'.name = "pause" /\ isRunning)
          => /\ ~isRunning'
             /\ scheduled' = {}
             /\ events' = <<[type |-> "game:paused"]>>
     /\ (op'.name = "pause" /\ ~isRunning)
          => /\ UNCHANGED <<loopVars, managerVars, totalClicks, statsVars>>
             /\ events' = <<>>
     /\ (op'.name = "resume" /\ ~isRunning)
          => /\ isRunning'
             /\ gameLoopHandle' # <<>> /\ scheduled' = {gameLoopHandle'[1]}
             /\ events' = <<[type |-> "game:resumed"]>>]_vars

\* The engine was paused after its loop had ticked, and then resumed.
C19_Witness ==
  /\ op.name = "resume"
  /\ isRunning
  /\ Cardinality(scheduled) = 1
  /\ autoSaveTimers = 1
  /\ get(currencies, "gold") > 0
  /\ events = <<[type |-> "game:resumed"]>>

---------------------------------------------------------------------------
(* Specification of reset: a game with one currency, upgrade, paradigm,     *)
(* achievement and tab is set up and played, started and paused, and reset  *)
(* at any moment.                                                           *)

NextReset ==
  \/ addCurrency("gold", 0) /\ NoScript
  \/ addUpgrade(Upgrade("torch", 1, "gold", TRUE, <<200>>)) /\ NoScript
  \/ addParadigm("industrial", FALSE, 2) /\ NoScript
  \/ addAchievement(Achievement("first", 2)) /\ NoScript
  \/ addTab(Tab("main", TRUE, TRUE, 0)) /\ UNCHANGED <<pc, config>>
  \/ setProductionRate("gold", 1) /\ NoScript
  \/ setClickMultiplier("gold", 2) /\ NoScript
  \/ totalClicks < MaxClicks /\ Engine_click("gold", 1) /\ UNCHANGED <<pc, config>>
  \/ purchase("torch") /\ NoScript
  \/ switchTo("industrial") /\ NoScript
  \/ updateProgress("first", 2) /\ NoScript
  \/ switchTab("main") /\ UNCHANGED <<pc, config>>
  \/ start /\ UNCHANGED <<pc, config>>
  \/ pause /\ UNCHANGED <<pc, config>>
  \/ reset /\ UNCHANGED <<pc, config>>

SpecReset == Init /\ [][NextReset]_vars

\* C20: reset, in any lifecycle state, leaves the engine not running, every
\* upgrade at level 0 and not purchased, every production rate at 0 and every
\* click multiplier at 1, every achievement locked with progress 0, the
\* statistics and totalClicks at 0, and leaves the paradigms, the active
\* paradigm, the tabs and the active tab as they were.
C20_ResetFrame ==
  [][op'.name = "reset"
     => /\ ~isRunning'
        /\ MapKeys(upgrades') = MapKeys(upgrades)
        /\ \A i \in DOMAIN upgrades' : upgrades'[i].level = 0 /\ ~upgrades'[i].purchased
        /\ \A c \in CurrencyIds :
             /\ getProductionRate(productionRates', c) = 0
             /\ getClickMultiplier(clickMultipliers', c) = 1
        /\ MapKeys(achievements') = MapKeys(achievements)
        /\ \A i \in DOMAIN achievements' :
             ~achievements'[i].unlocked /\ achievements'[i].progress = 0
        /\ stats' = NoStatistics
        /\ totalClicks' = 0
        /\ UNCHANGED <<paradigms, currentParadigm, tabs, activeTab>>]_vars

\* reset was called while the engine was running, with an upgrade, an
\* achievement, an active paradigm and an active tab registered.
C20_Witness ==
  /\ op.name = "reset"
  /\ events = <<[type |-> "game:paused"], [type |-> "game:reset"]>>
  /\ \E i \in DOMAIN upgrades : upgrades[i].id = "torch"
  /\ \E i \in DOMAIN achievements : achievements[i].id = "first"
  /\ currentParadigm = <<"industrial">>
  /\ activeTab = <<"main">>
  /\ storage = <<>>

\* C21: reset resets only progress: every currency registered before reset is
\* still registered afterwards, with its amount at the initial value (0 for
\* the currency of this specification), so that click, add and purchase on it
\* keep working.
C21_ResetKeepsCurrencies ==
  [][op'.name = "reset"
     => \A c \in CurrencyIds :
          MapHas(currencies, c) => MapHas(currencies', c) /\ get(currencies', c) = 0]_vars

---------------------------------------------------------------------------
(* Specification of the life of an achievement in the engine: achievements  *)
(* are registered (and registered again), make progress and are unlocked,   *)
(* the game is saved, loaded and reset.                                     *)

NextUnlock ==
  \/ \E a \in AchievementArgs : addAchievement(a) /\ NoScript
  \/ \E a \in AchievementIds, p \in ProgressArgs : updateProgress(a, p) /\ NoScript
  \/ \E a \in AchievementIds : unlockAchievement(a) /\ NoScript
  \/ saveGame("game-state") /\ UNCHANGED <<pc, config>>
  \/ \E k \in StorageKeys : loadGame(k) /\ UNCHANGED <<pc, config>>
  \/ reset /\ UNCHANGED <<pc, config>>

SpecUnlock == Init /\ [][NextUnlock]_vars

\* C18: once an achievement is unlocked it stays registered and unlocked and
\* its progress stays as it is, whatever call follows; achievement:unlocked
\* is published for an id only by a call that finds it locked.
C18_UnlockedIsFrozen ==
  [][\A a \in AchievementIds :
       /\ (MapHas(achievements, a) /\ MapGet(achievements, a).unlocked)
            => /\ MapHas(achievements', a)
               /\ MapGet(achievements', a).unlocked
               /\ MapGet(achievements', a).progress = MapGet(achievements, a).progress
       /\ (\E i \in DOMAIN events' :
             events'[i].type = "achievement:unlocked" /\ events'[i].achievementId = a)
            => MapHas(achievements, a) /\ ~MapGet(achievements, a).unlocked]_vars

---------------------------------------------------------------------------
(* Purchases made from inside a purchase: a handler of currency:changed or  *)
(* of upgrade:purchased calls purchase on the same upgrade while the outer  *)
(* call is still running, at most MaxNested calls deep.                     *)

MaxNested == 1

PurchaseHooks == {"currency:changed", "upgrade:purchased"}

\* A handler that does not call back.
NoCall(cur, upg) == [cur |-> cur, upg |-> upg, ev |-> <<>>, result |-> "none"]

\* purchase with a handler of the event `hook` that calls purchase again as
\* long as `depth` allows: the cost is a local computed before the deduction,
\* the level is read from and written to the stored upgrade after it.
RECURSIVE Upgrade_purchase(_, _, _, _, _)
Upgrade_purchase(cur, upg, upgradeId, hook, depth) ==
  IF ~MapHas(upg, upgradeId)
  THEN [cur |-> cur, upg |-> upg, ev |-> <<>>, result |-> "throw"]
  ELSE LET upgrade == MapGet(upg, upgradeId)
           cost == calculateCost(upgrade)
           r == Currency_subtract(cur, upgrade.currencyId, cost)
       IN IF ~canAfford(cur, upgrade, cost)
          THEN [cur |-> cur, upg |-> upg, ev |-> <<>>, result |-> "false"]
          ELSE IF r.thrown
          THEN [cur |-> cur, upg |-> upg, ev |-> <<>>, result |-> "throw"]
          ELSE LET onChanged ==
                     IF hook = "currency:changed" /\ depth > 0
                     THEN Upgrade_purchase(r.cur, upg, upgradeId, hook, depth - 1)
                     ELSE NoCall(r.cur, upg)
                   bought == leveledUp(MapGet(onChanged.upg, upgradeId))
                   stored == MapSet(onChanged.upg, bought)
                   onPurchased ==
                     IF hook = "upgrade:purchased" /\ depth > 0
                     THEN Upgrade_purchase(onChanged.cur, stored, upgradeId, hook, depth - 1)
                     ELSE NoCall(onChanged.cur, stored)
                   leveled == MapGet(onPurchased.upg, upgradeId)
               IN [cur |-> onPurchased.cur,
                   upg |-> onPurchased.upg,
                   ev |-> r.ev \o onChanged.ev
                          \o <<purchaseEvents(upgradeId, bought, cost)[1]>>
                          \o onPurchased.ev
                          \o <<purchaseEvents(upgradeId, leveled, cost)[2]>>,
                   result |-> "true"]

purchaseHandled(upgradeId, hook, depth) ==
  LET r == Upgrade_purchase(currencies, upgrades, upgradeId, hook, depth)
  IN /\ \A i \in DOMAIN r.upg : r.upg[i].level <= MaxLevel
     /\ op' = Op("purchase", upgradeId, depth)
     /\ result' = r.result
     /\ currencies' = r.cur
     /\ upgrades' = r.upg
     /\ events' = r.ev
     /\ UNCHANGED <<paradigms, currentParadigm, productionRates, clickMultipliers,
                    achievements, storage>>

NextNested ==
  \/ addCurrency("gold", 0) /\ NoScript
  \/ add("gold", 50) /\ NoScript
  \/ \E u \in UpgradeArgs : addUpgrade(u) /\ NoScript
  \/ \E u \in UpgradeIds : purchase(u) /\ NoScript
  \/ \E u \in UpgradeIds, hook \in PurchaseHooks, depth \in 1..MaxNested :
       purchaseHandled(u, hook, depth) /\ NoScript

SpecNested == Init /\ [][NextNested]_vars

\* What the purchases from level `from` up to level `to` cost together.
RECURSIVE costOfLevels(_, _, _)
costOfLevels(upgrade, from, to) ==
  IF from >= to THEN 0
  ELSE calculateCost([upgrade EXCEPT !.level = from]) + costOfLevels(upgrade, from + 1, to)

\* C31: whatever purchases a call of purchase makes, the handlers' nested
\* ones included, the balance goes down by the costs of the levels gained
\* (ceil(baseCost * scaleFactor^k) for the step from k to k+1), and every
\* upgrade:purchased reports one of those levels with the cost of the step
\* that reached it.
C31_NestedPurchaseCosts ==
  [][\A u \in UpgradeIds :
       (op'.name = "purchase" /\ op'.id = u /\ result' = "true")
       => LET before == UpgradeOf(upgrades, u)
              after == UpgradeOf(upgrades', u)
          IN /\ get(currencies, before.currencyId) - get(currencies', before.currencyId)
                  = costOfLevels(before, before.level, after.level)
             /\ \A i \in DOMAIN events' :
                  events'[i].type = "upgrade:purchased"
                  => /\ events'[i].level \in (before.level + 1)..after.level
                     /\ events'[i].cost
                          = calculateCost([before EXCEPT !.level = events'[i].level - 1])]_vars

---------------------------------------------------------------------------
(* Currency calls made from inside a currency call: a handler of           *)
(* currency:changed calls add or subtract on the currency of the event     *)
(* while the emit that called it is still going through its observers.     *)

\* What a handler calls on the CurrencyManager when it gets an event: "bonus"
\* adds 1 to the currency of the event and "tax" takes 1 off it.
Reentry(fn) ==
  CASE fn = "bonus" -> <<[name |-> "add", amount |-> 1]>>
    [] fn = "tax"   -> <<[name |-> "subtract", amount |-> 1]>>
    [] OTHER        -> <<>>

\* add or subtract with the observers of currency:changed called inside it,
\* and emit's forEach from observer i of its array on: the currencies after
\* it, the events in the order of their emits and, for every observer
\* called, the event it got and what it saw.  A handler calls back only as
\* long as `depth` allows.
RECURSIVE Currency_handled(_, _, _, _, _, _)
RECURSIVE emitChanged(_, _, _, _, _)
Currency_handled(name, cur, currencyId, amount, array, depth) ==
  LET r == IF name = "add" THEN Currency_add(cur, currencyId, amount)
           ELSE Currency_subtract(cur, currencyId, amount)
  IN IF r.thrown THEN [cur |-> cur, ev |-> <<>>, called |-> <<>>, thrown |-> TRUE]
     ELSE LET e == emitChanged(array, 1, r.cur, r.ev[1], depth)
          IN [cur |-> e.cur, ev |-> r.ev \o e.ev, called |-> e.called, thrown |-> FALSE]

emitChanged(array, i, cur, event, depth) ==
  IF i > Len(array) THEN [cur |-> cur, ev |-> <<>>, called |-> <<>>]
  ELSE LET does == Reentry(array[i].fn)
           h == IF does # <<>> /\ depth > 0
                THEN Currency_handled(does[1].name, cur, event.currencyId, does[1].amount,
                                      array, depth - 1)
                ELSE [cur |-> cur, ev |-> <<>>, called |-> <<>>, thrown |-> FALSE]
           rest == emitChanged(array, i + 1, h.cur, event, depth)
       IN [cur |-> rest.cur,
           ev |-> h.ev \o rest.ev,
           called |-> <<[observer |-> array[i], event |-> event,
                         saw |-> View(cur, upgrades, currentParadigm)]>>
                      \o h.called \o rest.called]

CurrencyHandled(name, currencyId, amount, depth) ==
  LET r == Currency_handled(name, currencies, currencyId, amount,
                            ObserversOf(observers, "currency:changed"), depth)
  IN /\ InRange(r.cur)
     /\ op' = Op(name, currencyId, amount)
     /\ currencies' = r.cur
     /\ events' = r.ev
     /\ delivered' = r.called
     /\ result' = IF r.thrown THEN "throw" ELSE "ok"
     /\ UNCHANGED <<upgrades, paradigms, currentParadigm, productionRates,
                    clickMultipliers, achievements, storage, observers, pc, config>>
     /\ Apart

addHandled(currencyId, amount, depth) == CurrencyHandled("add", currencyId, amount, depth)

subtractHandled(currencyId, amount, depth) ==
  CurrencyHandled("subtract", currencyId, amount, depth)

ReentryHandlers == {"log", "bonus", "tax"}

NextReentry ==
  \/ \E f \in ReentryHandlers : on("currency:changed", Observer(f)) /\ UNCHANGED <<pc, config>> /\ Apart
  \/ addCurrency("gold", 0) /\ NoScript
  \/ \E depth \in 0..MaxNested : addHandled("gold", 2, depth) /\ AtMost(currencies', 6)
  \/ \E a \in {2, 5}, depth \in 0..MaxNested : subtractHandled("gold", a, depth)

SpecReentry == Init /\ [][NextReentry]_vars

\* The events an observer was called with, in the order of the calls.
EventsTo(called, observer) ==
  LET mine == SelectSeq(called, LAMBDA d : d.observer = observer)
  IN [j \in DOMAIN mine |-> mine[j].event]

\* C32: every handler of currency:changed finds get(currencyId) equal to the
\* newAmount of the event it is called with, and is called with the events
\* of a call in the order the amounts were assigned, also when a handler
\* calls add or subtract from inside the emit.
C32_HandlersSeeEachChangeInOrder ==
  [][op'.name \in {"add", "subtract"}
     => /\ \A j \in DOMAIN delivered' :
             get(delivered'[j].saw.currencies, delivered'[j].event.currencyId)
               = delivered'[j].event.newAmount
        /\ \A k \in DOMAIN ObserversOf(observers, "currency:changed") :
             EventsTo(delivered', ObserversOf(observers, "currency:changed")[k]) = events']_vars

---------------------------------------------------------------------------
(* Emits made from inside an emit: the function "echo" emits the type it    *)
(* is called with once more, while the outer emit is still going through   *)
(* its array of observers.                                                  *)

\* emit with observers that emit: every emit copies the observers subscribed
\* when it starts, the wrapper of once calls its function first and takes
\* itself off only when the function has returned.  A function emits again
\* only as long as `depth` allows.
RECURSIVE Bus_emit(_, _, _)
RECURSIVE emitEach(_, _, _, _, _)
Bus_emit(obs, eventType, depth) ==
  emitEach(ObserversOf(obs, eventType), 1, obs, eventType, depth)

emitEach(array, i, obs, eventType, depth) ==
  IF i > Len(array) THEN [obs |-> obs, called |-> <<>>]
  ELSE LET inner == IF array[i].fn = "echo" /\ depth > 0
                    THEN Bus_emit(obs, eventType, depth - 1)
                    ELSE [obs |-> obs, called |-> <<>>]
           r == invoke(array[i], inner.obs, eventType)
           rest == emitEach(array, resumeAt(i, Len(array)), r.obs, eventType, depth)
       IN [obs |-> rest.obs, called |-> <<array[i]>> \o inner.called \o rest.called]

emitNested(eventType, depth) ==
  LET r == Bus_emit(observers, eventType, depth)
  IN /\ BusCall("emit", eventType, r.obs, r.called)
     /\ events' = <<[type |-> eventType]>>

OnceFns == {"log", "fail", "echo"}

NextOnce ==
  \/ \E f \in OnceFns :
       /\ Room("game:click") /\ ~InSet(ObserversOf(observers, "game:click"), Wrapper(f))
       /\ once("game:click", f) /\ UNCHANGED <<pc, config>> /\ Apart
  \/ Room("game:click") /\ on("game:click", Observer("log")) /\ UNCHANGED <<pc, config>> /\ Apart
  \/ off("game:click", Observer("log")) /\ UNCHANGED <<pc, config>> /\ Apart
  \/ \E depth \in 0..MaxNested : emitNested("game:click", depth) /\ UNCHANGED <<pc, config>> /\ Apart

SpecOnce == Init /\ [][NextOnce]_vars

\* How often an observer was called.
Calls(called, observer) == Len(SelectSeq(called, LAMBDA o : o = observer))

\* C33: the wrapper of once is called for at most one emit: not twice within
\* a call of emit and the emits made inside it, and not by an emit that
\* follows one that has called it already (no once comes between the two, so
\* that it is the same subscription).
C33_OnceIsCalledForOneEmit ==
  [][\A f \in OnceFns :
       op'.name = "emit"
       => /\ Calls(delivered', Wrapper(f)) <= 1
          /\ (op.name = "emit" /\ InSet(delivered, Wrapper(f)))
               => ~InSet(delivered', Wrapper(f))]_vars

---------------------------------------------------------------------------
(* The frame loop over the life of the engine (specification SpecLoop).    *)

\* C34: while the engine is running a frame callback is pending after every
\* call and every frame, so that the loop goes on until pause or reset: a
\* frame whose tick fails does not end it.
C34_RunningKeepsAFramePending == isRunning => scheduled # {}

---------------------------------------------------------------------------
(* Specification of frames that fire while the engine is paused: gold and  *)
(* gems are produced, and a handler of currency:changed pauses the engine *)
(* from inside a tick, which leaves the frame requested at the end of that *)
(* tick pending.                                                            *)

NextPausedLoop ==
  \/ currencies = <<>> /\ addCurrency("gold", 0) /\ NoScript
  \/ Len(currencies) = 1 /\ productionRates = <<>> /\ addCurrency("gems", 0) /\ NoScript
  \/ Len(currencies) = 2 /\ productionRates = <<>> /\ setProductionRate("gold", 1) /\ NoScript
  \/ Len(productionRates) = 1 /\ setProductionRate("gems", 1) /\ NoScript
  \/ start /\ UNCHANGED <<pc, config>>
  \/ pause /\ UNCHANGED <<pc, config>>
  \/ resume /\ Cardinality(scheduled') <= MaxPending /\ UNCHANGED <<pc, config>>
  \/ reset /\ UNCHANGED <<pc, config>>
  \/ \E h \in scheduled : gameLoop(h) /\ UNCHANGED <<pc, config>>
  \/ \E h \in scheduled :
       gameLoopChanged(h, <<"pause">>) /\ Cardinality(scheduled') <= MaxPending /\ UNCHANGED <<pc, config>>
  \/ passTime

\* The engine is constructed with auto-save switched off.
InitPausedLoop == Constructed([autoSaveInterval |-> 0])

SpecPausedLoop == InitPausedLoop /\ [][NextPausedLoop]_vars

\* Whether the events of a call hold a credit or a production:tick after a
\* game:paused or game:reset with no game:started or game:resumed between.
TicksAfterPause(evs) ==
  \E i, j \in DOMAIN evs :
    /\ i < j
    /\ evs[i].type \in {"game:paused", "game:reset"}
    /\ evs[j].type \in {"currency:changed", "production:tick"}
    /\ \A k \in i..j : evs[k].type \notin {"game:started", "game:resumed"}

\* C35 as stated: once pause or reset has returned, to whoever called it, the
\* loop credits nothing and publishes no production:tick until start or
\* resume: neither a frame that fires while the engine is not running nor the
\* rest of a tick one of whose handlers called pause.
C35_NothingAfterPauseReturns ==
  [][op'.name = "gameLoop"
     => /\ ~isRunning => (currencies' = currencies /\ events' = <<>>)
        /\ ~TicksAfterPause(events')]_vars

\* C35, amended: a frame callback that fires while the engine is not running
\* (after pause or reset and before the next start or resume) credits
\* nothing, publishes nothing, moves no loop field and requests no frame.
C35_PausedFrameDoesNothing ==
  [][(op'.name = "gameLoop" /\ ~isRunning)
     => /\ currencies' = currencies
        /\ events' = <<>>
        /\ ~isRunning'
        /\ lastFrameTime' = lastFrameTime
        /\ gameLoopHandle' = gameLoopHandle
        /\ scheduled' \subseteq scheduled /\ scheduled' # scheduled]_vars

\* A frame callback fired while the engine was paused, a second after the
\* frame before it, with both currencies produced.
C35_Witness ==
  /\ op.name = "gameLoop" /\ ~isRunning /\ events = <<>>
  /\ now > lastFrameTime
  /\ Len(productionRates) = 2
  /\ get(currencies, "gems") > 0

---------------------------------------------------------------------------
(* Specification of an upgrade over purchases, saves, loads and resets:    *)
(* gold is registered and funded, the upgrade is registered at level 0 and *)
(* not purchased, and the game is saved under one key.                      *)

NextUpgradeLoad ==
  \/ currencies = <<>> /\ addCurrency("gold", 0) /\ NoScript
  \/ add("gold", 2) /\ AtMost(currencies', 4) /\ NoScript
  \/ ~MapHas(upgrades, "torch")
       /\ addUpgrade(Upgrade("torch", 1, "gold", FALSE, <<>>)) /\ NoScript
  \/ purchase("torch") /\ NoScript
  \/ saveGame("game-state") /\ UNCHANGED <<pc, config>>
  \/ \E k \in StorageKeys : loadGame(k) /\ UNCHANGED <<pc, config>>
  \/ reset /\ UNCHANGED <<pc, config>>

SpecUpgradeLoad == Init /\ [][NextUpgradeLoad]_vars

\* C36: an upgrade registered at level 0 and not purchased is purchased
\* exactly when its level is at least 1, and its level is a natural number,
\* in every state that purchase, reset, saveGame and loadGame reach.
C36_PurchasedIffLeveled ==
  \A i \in DOMAIN upgrades :
    /\ upgrades[i].level \in Nat
    /\ upgrades[i].purchased <=> upgrades[i].level >= 1

---------------------------------------------------------------------------
(* Specification of the two click counters, the engine's and the one of the *)
(* statistics, over clicks, saves, loads and resets.                        *)

NextClickTotals ==
  \/ currencies = <<>> /\ addCurrency("gold", 0) /\ NoScript
  \/ FewClicks /\ Engine_click("gold", 1) /\ UNCHANGED <<pc, config>>
  \/ \E k \in StorageKeys : saveGame(k) /\ UNCHANGED <<pc, config>>
  \/ \E k \in StorageKeys : loadGame(k) /\ UNCHANGED <<pc, config>>
  \/ reset /\ UNCHANGED <<pc, config>>

SpecClickTotals == Init /\ [][NextClickTotals]_vars

\* C37: after every call of click, saveGame, loadGame and reset the engine's
\* getTotalClicks() is the totalClicks of the statistics.
C37_ClickCountersAgree == totalClicks = stats.totalClicks

---------------------------------------------------------------------------
(* ClickerGameEngine.click over a bus with handlers of game:click           *)

\* The engine's click counters as a record.
Counters(clicks, st) == [totalClicks |-> clicks, statistics |-> st.totalClicks]

\* What the handlers of game:click find: the event is emitted inside
\* ProductionManager.click, the first statement of the engine's click, and
\* the two counters are raised in the statements after it.
countersAtClick(before, after) == before

\* ClickerGameEngine.click with the handlers of game:click called: each gets
\* the event and finds the counters as they stand at the emit.
clickHandled(currencyId, baseAmount) ==
  LET s == Statistics_recordClick(stats, clickTimeWindow, now)
      r == emitLoop(ObserversOf(observers, "game:click"), 1, observers, <<>>, "game:click")
  IN /\ click(currencyId, baseAmount)
     /\ IF result' = "throw"
        THEN UNCHANGED <<totalClicks, stats, clickTimeWindow, clickTimes, observers>>
             /\ delivered' = <<>>
        ELSE /\ totalClicks' = totalClicks + 1
             /\ stats' = s.stats
             /\ clickTimeWindow' = s.window
             /\ clickTimes' = Append(clickTimes, now)
             /\ observers' = r.obs
             /\ delivered' = [j \in DOMAIN r.called |->
                                [observer |-> r.called[j],
                                 event |-> events'[Len(events')],
                                 saw |-> countersAtClick(Counters(totalClicks, stats),
                                                         Counters(totalClicks', stats'))]]
     /\ UNCHANGED <<loopVars, sessionStartTime, uiVars, now>>

ClickHandlers == {"log", "fail"}

NextClickHandlers ==
  \/ \E f \in ClickHandlers :
       Room("game:click") /\ on("game:click", Observer(f)) /\ UNCHANGED <<pc, config>> /\ Apart
  \/ \E f \in ClickHandlers : off("game:click", Observer(f)) /\ UNCHANGED <<pc, config>> /\ Apart
  \/ currencies = <<>> /\ addCurrency("gold", 0) /\ NoScript
  \/ setClickMultiplier("gold", 2) /\ NoScript
  \/ \E c \in CurrencyIds :
       FewClicks /\ clickHandled(c, 1) /\ AtMost(currencies', 4) /\ UNCHANGED <<pc, config>>
  \/ reset /\ UNCHANGED <<pc, config>>

SpecClickHandlers == Init /\ [][NextClickHandlers]_vars

\* C38: the handlers of game:click called by the engine's click find
\* getTotalClicks() and the totalClicks of the statistics with the click they
\* are told of counted in: at the values the counters have when click
\* returns.
C38_HandlersSeeTheClickCounted ==
  [][(op'.name = "click" /\ result' # "throw")
     => \A j \in DOMAIN delivered' :
          delivered'[j].saw = Counters(totalClicks', stats')]_vars

---------------------------------------------------------------------------
(* Specification of the auto-save timers: the engine is constructed with   *)
(* an autoSaveInterval of 0 or of 30 seconds, and is started, paused,      *)
(* resumed and reset while its loop runs and its timers fire.               *)

AutoSaveIntervals == {0, 30000}

InitTimers == \E interval \in AutoSaveIntervals : Constructed([autoSaveInterval |-> interval])

NextTimers ==
  \/ currencies = <<>> /\ addCurrency("gold", 0) /\ NoScript
  \/ MapHas(currencies, "gold") /\ setProductionRate("gold", 1) /\ NoScript
  \/ start /\ UNCHANGED <<pc, config>>
  \/ pause /\ UNCHANGED <<pc, config>>
  \/ resume /\ UNCHANGED <<pc, config>>
  \/ reset /\ UNCHANGED <<pc, config>>
  \/ \E h \in scheduled : gameLoop(h) /\ UNCHANGED <<pc, config>>
  \/ autoSave /\ UNCHANGED <<pc, config>>
  \/ passTime

SpecTimers == InitTimers /\ [][NextTimers]_vars

\* C39: with an autoSaveInterval above 0 at most one auto-save timer exists,
\* whatever start, pause, resume and reset calls were made (no timer is ever
\* cleared, so every timer created is active), and with an autoSaveInterval
\* of 0 none exists.
C39_OneAutoSaveTimer ==
  /\ config.autoSaveInterval > 0 => autoSaveTimers <= 1
  /\ config.autoSaveInterval = 0 => autoSaveTimers = 0

---------------------------------------------------------------------------
(* UIManager: visibility and removal of tabs *)

\* getVisible()[0]: the visible tab of the least order, the one registered
\* first among equals (the sort is stable); <<>> when no tab is visible.
firstVisible(tbs) ==
  LET first == {i \in DOMAIN tbs :
                  /\ tbs[i].visible
                  /\ \A j \in DOMAIN tbs :
                       tbs[j].visible
                       => \/ tbs[i].order < tbs[j].order
                          \/ tbs[i].order = tbs[j].order /\ i <= j}
  IN IF first = {} THEN <<>> ELSE <<tbs[CHOOSE i \in first : TRUE]>>

\* switchTab on a registered, visible tab: the tab activeTab names, if it is
\* registered, loses its active flag, and the new one gets it.
Tab_switchTo(tbs, active, tabId) ==
  LET deactivated ==
        IF Truthy(active) /\ MapHas(tbs, active[1])
        THEN MapSet(tbs, [MapGet(tbs, active[1]) EXCEPT !.active = FALSE])
        ELSE tbs
  IN [tabs |-> MapSet(deactivated, [MapGet(deactivated, tabId) EXCEPT !.active = TRUE]),
      activeTab |-> <<tabId>>]

\* A call on the UIManager: it touches the tabs and activeTab only.
UICall(name, tabId, arg) ==
  /\ op' = Op(name, tabId, arg)
  /\ UNCHANGED <<managerVars, observers, delivered, loopVars, totalClicks, statsVars, now>>

\* setTabVisible: hiding the active tab switches to the first visible tab, or
\* sets activeTab to null when none is visible (the hidden tab keeps its
\* active flag then).
setTabVisible(tabId, visible) ==
  /\ UICall("setTabVisible", tabId, IF visible THEN 1 ELSE 0)
  /\ IF ~MapHas(tabs, tabId)
     THEN /\ result' = "throw"
          /\ events' = <<>>
          /\ UNCHANGED uiVars
     ELSE LET shown == MapSet(tabs, [MapGet(tabs, tabId) EXCEPT !.visible = visible])
              next == firstVisible(shown)
              updated == [type |-> "ui:updated", tabId |-> tabId, visible |-> visible]
          IN /\ result' = "ok"
             /\ IF ~visible /\ activeTab = <<tabId>>
                THEN IF next # <<>>
                     THEN LET s == Tab_switchTo(shown, activeTab, next[1].id)
                          IN /\ tabs' = s.tabs
                             /\ activeTab' = s.activeTab
                             /\ events' = <<[type |-> "ui:tabSwitched", tabId |-> next[1].id],
                                            updated>>
                     ELSE /\ tabs' = shown
                          /\ activeTab' = <<>>
                          /\ events' = <<updated>>
                ELSE /\ tabs' = shown
                     /\ UNCHANGED activeTab
                     /\ events' = <<updated>>

\* removeTab: when the active tab is removed, activeTab becomes the id of the
\* first visible tab, looked up while the removed tab is still registered,
\* and no active flag is set; then the tab is deleted.
removeTab(tabId) ==
  /\ UICall("removeTab", tabId, 0)
  /\ result' = "ok"
  /\ events' = <<>>
  /\ activeTab' = IF activeTab = <<tabId>>
                  THEN IF firstVisible(tabs) # <<>> THEN <<firstVisible(tabs)[1].id>> ELSE <<>>
                  ELSE activeTab
  /\ tabs' = MapDelete(tabs, tabId)

---------------------------------------------------------------------------
(* Specification of the tabs: two tabs are registered, visible or hidden   *)
(* and active or not, switched to, shown, hidden and removed.               *)

TabIds == {"main", "shop"}

TabArgs == {Tab(id, visible, active, order) :
              id \in TabIds, visible \in BOOLEAN, active \in BOOLEAN, order \in {0, 1}}

NextTabs ==
  \/ \E tab \in TabArgs : addTab(tab) /\ UNCHANGED <<pc, config>>
  \/ \E id \in TabIds : switchTab(id) /\ UNCHANGED <<pc, config>>
  \/ \E id \in TabIds, visible \in BOOLEAN : setTabVisible(id, visible) /\ UNCHANGED <<pc, config>>
  \/ \E id \in TabIds : removeTab(id) /\ UNCHANGED <<pc, config>>

SpecTabs == Init /\ [][NextTabs]_vars

\* At most one tab is flagged active, and getActiveId() is null or the id of
\* a registered, visible tab that is flagged active.
ActiveTabIsConsistent(tbs, active) ==
  /\ Cardinality({i \in DOMAIN tbs : tbs[i].active}) <= 1
  /\ active # <<>>
       => /\ MapHas(tbs, active[1])
          /\ MapGet(tbs, active[1]).visible
          /\ MapGet(tbs, active[1]).active

\* C40: after every call of addTab, switchTab, setTabVisible and removeTab at
\* most one tab has active = true and getActiveId() is null or the id of a
\* registered, visible tab whose active flag is true; switchTab to a hidden
\* or unregistered tab throws and changes nothing.
C40_ActiveTab ==
  [][/\ ActiveTabIsConsistent(tabs', activeTab')
     /\ (op'.name = "switchTab"
           /\ (~MapHas(tabs, op'.id) \/ ~MapGet(tabs, op'.id).visible))
          => result' = "throw" /\ UNCHANGED uiVars /\ events' = <<>>]_vars

===========================================================================
